---- MODULE Spec2Model ----
(***************************************************************************)
(* Protocol engine of fleascope-rs (src/src/serial_terminal.rs): the       *)
(* state-indexed terminal handles FleaPreTerminal / IdleFleaTerminal /     *)
(* BusyFleaTerminal over one serial link, together with the device at the  *)
(* other end of the link.                                                  *)
(*                                                                         *)
(* A byte on the device-to-host direction is a pair <<value, origin>>:     *)
(* value is the byte, origin says what made the device send it: k > 0 is   *)
(* the k-th command written to the link, -k (or 0) is the interrupt that   *)
(* was written while command k was the latest one.  The origin is ghost    *)
(* state: the program only ever looks at the value.                        *)
(***************************************************************************)
EXTENDS Integers, Sequences, FiniteSets, TLC

VARIABLES
    handle,       \* which handle the caller holds: "Pre", "Idle", "Busy"; "None": dropped; "Dead": the process panicked
    pc,           \* the blocking call the caller is inside: "none", "init", "exec_sync", "wait", "wait_timeout"
    tmo,          \* exec's timeout argument: TRUE for Some(t), FALSE for None
    done,         \* BusyFleaTerminal.done
    response,     \* the response buffer (exec's local `response`, BusyFleaTerminal.response)
    rx,           \* bytes received from the device and not yet read by the host
    devQ,         \* bytes the device still has to send
    wlog,         \* what the host did to the link, in order: written tokens and "CLEAR"
    ncmd,         \* number of commands written to the link so far
    nint,         \* number of interrupt bytes written to the link so far
    cmdsLeft,     \* commands the run may still write (bounds the model)
    intsLeft,     \* interrupt bytes the run may still write (bounds the model)
    outstanding,  \* commands written and neither completed (marker read) nor interrupted
    cancelledNo,  \* the latest command cancel() was called on (0: none)
    lost,         \* a read on the Busy handle signalled BrokenPipe or UnexpectedEof
    lastOp,       \* the API call whose step ran last
    lastCmd,      \* the command argument of the last exec_sync / exec_async
    lastReads,    \* number of serial.read attempts the last API step made
    result,       \* outcome of the last API step
    cause,        \* the error behind the outcome ("None" when there is none)
    payload,      \* the String returned by the last successful exec / generate_result
    overdue,      \* the running call's loop went on although its time limit had elapsed at the last iteration
    scopeArg,     \* the call made on the FleaScope / trigger layer, with its arguments and the probe's calibration
    scopeRes,     \* what that call returned ("pending" until it ran)
    scopeSent,    \* the commands that call passed to self.serial.exec, in order
    probe,        \* the selected FleaProbe's cal_zero and cal_3v3 (after the call, once it ran)
    probes,       \* FleaScope.x1 and FleaScope.x10, by multiplier
    flash,        \* the device's stored variables: what `print <name>` answers, by name
    calLeft,      \* calibration calls the run may still make (bounds the model)
    calLast,      \* the last calibration call: its probe, result, commands, and the state before it
    conn,         \* FleaConnector::connect without a port: where it stands and what its calls returned
    dev           \* what the device on the bus does while connect runs

vars == <<handle, pc, tmo, done, response, rx, devQ, wlog, ncmd, nint, cmdsLeft,
          intsLeft, outstanding,
          cancelledNo, lost, lastOp, lastCmd, lastReads, result, cause, payload,
          overdue, scopeArg, scopeRes, scopeSent, probe, probes, flash, calLeft, calLast,
          conn, dev>>

\* the variables of the terminal and the link
termVars == <<handle, pc, tmo, done, response, rx, devQ, wlog, ncmd, nint, cmdsLeft,
              intsLeft, outstanding, cancelledNo, lost, lastOp, lastCmd, lastReads,
              result, cause, payload, overdue>>

\* the variables of the FleaScope / trigger layer
scopeVars == <<scopeArg, scopeRes, scopeSent, probe, probes, flash, calLeft, calLast,
               conn, dev>>

\* the variables of FleaConnector::connect
connVars == <<conn, dev>>

\* the variables of a calibration session
calVars == <<probes, flash, calLeft, calLast>>

(***************************************************************************)
(* Bounds of the model.                                                    *)
(***************************************************************************)
\* commands and interrupt bytes written in the whole life of a connection
MaxCmds == 3
MaxInts == 2
\* commands and cancels of one session on an Idle handle
MaxSessionCmds == 1
MaxSessionCancels == 1

(***************************************************************************)
(* Program constants and pure helpers.                                     *)
(***************************************************************************)
\* prompt: "> ".to_string()
Prompt == <<62, 32>>

\* commands the callers pass to exec_sync / exec_async
Commands == {"ver"}

\* what initialize passes to exec
PromptOn == "prompt on"

\* bytes of s tagged with origin o
Tag(s, o) == [i \in 1..Len(s) |-> <<s[i], o>>]

\* the byte values of a tagged sequence
Vals(buf) == [i \in 1..Len(buf) |-> buf[i][1]]

\* char::is_whitespace on the bytes the model uses
IsWhitespace(b) == b \in {9, 10, 11, 12, 13, 32}

\* response.len() >= prompt_bytes.len() && response[len - prompt_len ..] == prompt_bytes
EndsWithPrompt(buf) ==
    /\ Len(buf) >= Len(Prompt)
    /\ Vals(SubSeq(buf, Len(buf) - Len(Prompt) + 1, Len(buf))) = Prompt

\* &response[..response.len() - prompt_bytes.len()]
WithoutPrompt_KeepsPrompt(buf) == buf
WithoutPrompt(buf) == SubSeq(buf, 1, Len(buf) - Len(Prompt))

\* String::from_utf8 succeeds (0xFF is never part of valid UTF-8; bytes below 0x80 are ASCII)
ValidUtf8(buf) == \A i \in 1..Len(buf) : buf[i][1] < 128

RECURSIVE TrimStart(_)
TrimStart(s) == IF s # <<>> /\ IsWhitespace(Head(s)[1]) THEN TrimStart(Tail(s)) ELSE s

RECURSIVE TrimEnd(_)
TrimEnd(s) ==
    IF s # <<>> /\ IsWhitespace(s[Len(s)][1]) THEN TrimEnd(SubSeq(s, 1, Len(s) - 1)) ELSE s

\* str::trim
Trim(s) == TrimEnd(TrimStart(s))

(***************************************************************************)
(* The device and the link.                                                *)
(***************************************************************************)
\* response bodies the device may produce for a command (before the prompt):
\* "prompt on" prints nothing; other commands print " a", the byte 0xFF, or "> a"
Bodies(cmd) == IF cmd = PromptOn THEN { <<>> } ELSE { <<32, 97>>, <<255>>, <<62, 32, 97>> }

\* the device receives command number k: it answers with a body and the prompt
DevOnCommand(q, k, body) == q \o Tag(body, k) \o Tag(Prompt, k)

\* the device receives the interrupt byte while command k is the latest: anything
\* unsent is aborted and the prompt printed; an idle device may print a prompt or nothing
DevOnInterrupt(q, k, reply) ==
    IF q # <<>> \/ reply THEN Tag(Prompt, 0 - k) ELSE <<>>

\* outcomes of one serial.read: data when bytes are queued, Ok(0) or TimedOut when
\* none are, and an I/O failure at any time
ReadOutcomes(queue) ==
    (IF queue # <<>> THEN {"data"} ELSE {"zero", "timedout"})
        \cup {"brokenpipe", "eof", "other"}

\* a call record of the FleaScope / trigger layer with every argument at its default
NoCall ==
    [op |-> "none", n |-> 0, bits |-> [i \in 0..8 |-> "DontCare"], beh |-> "",
     raw |-> 0, us |-> 0, sub |-> 0, delayUs |-> 0, delaySub |-> 0, trig |-> "none",
     calZero |-> FALSE, cal3v3 |-> FALSE, zero |-> 0, span |-> 0,
     bit |-> 0, state |-> "DontCare", v |-> <<0, 1>>, rawq |-> <<0, 1>>,
     samples |-> <<>>, multiplier |-> 1, zeroText |-> <<>>, v3v3Text |-> <<>>,
     name |-> <<>>, portType |-> "Unknown", vid |-> 0, pid |-> 0, product |-> <<>>,
     calls |-> <<>>]

\* FleaProbe::new: cal_zero: None, cal_3v3: None.  A value Some(x) is is_some
\* TRUE with x as a fraction <<numerator, denominator>>
FreshProbe == [calZero |-> FALSE, zero |-> <<0, 1>>, cal3v3 |-> FALSE, span |-> <<0, 1>>]

\* the probe a call record starts with
ProbeOf(a) ==
    [calZero |-> a.calZero, zero |-> IF a.calZero THEN <<a.zero, 1>> ELSE <<0, 1>>,
     cal3v3 |-> a.cal3v3, span |-> IF a.cal3v3 THEN <<a.span, 1>> ELSE <<0, 1>>]

\* the result record of a call that has not run
Pending == [st |-> "pending", err |-> "", val |-> <<>>]

\* ProbeType::X1 and ProbeType::X10 by their multiplier (FleaProbe::new(1), (10))
Multipliers == {1, 10}

\* the names of the device variables: cal_zero_x1, cal_3v3_x1, cal_zero_x10, cal_3v3_x10
CalZeroVar(multiplier) ==
    <<"c", "a", "l", "_", "z", "e", "r", "o", "_", "x">>
        \o (IF multiplier = 1 THEN <<"1">> ELSE <<"1", "0">>)
Cal3v3Var(multiplier) ==
    <<"c", "a", "l", "_", "3", "v", "3", "_", "x">>
        \o (IF multiplier = 1 THEN <<"1">> ELSE <<"1", "0">>)
FlashVars == { CalZeroVar(m) : m \in Multipliers } \cup { Cal3v3Var(m) : m \in Multipliers }

\* no calibration call was made yet
NoStep ==
    [op |-> "none", m |-> 1, st |-> "", err |-> "", sent |-> <<>>,
     before |-> [m \in Multipliers |-> FreshProbe],
     flashBefore |-> [v \in FlashVars |-> <<>>],
     prev |-> [op |-> "none", m |-> 1, st |-> "", before |-> FreshProbe]]

\* FleaScope::new without read_calibrations: x1: FleaProbe::new(1), x10: FleaProbe::new(10)
CalUnused ==
    /\ probes = [m \in Multipliers |-> FreshProbe]
    /\ flash = [v \in FlashVars |-> <<>>]
    /\ calLeft = 0
    /\ calLast = NoStep

\* FleaConnector::connect is not running.  pc: the call it makes next;
\* last: what its latest call returned; loop: what get_working_serial returned
\* ("running" until it does); res: what connect returned; resets: the calls of
\* send_reset so far
NoConn ==
    [pc |-> "none", last |-> "Ok", loop |-> "running", res |-> "running", resets |-> 0,
     name |-> <<"FleaScope">>, foreign |-> FALSE]

ConnUnused ==
    /\ conn = NoConn
    /\ dev = "answering"

\* no call is made on the FleaScope / trigger layer
ScopeUnused ==
    /\ scopeArg = NoCall
    /\ scopeRes = Pending
    /\ scopeSent = <<>>
    /\ probe = FreshProbe
    /\ CalUnused
    /\ ConnUnused

\* the terminal as FleaPreTerminal::new returns it
AfterNew ==
    /\ handle = "Pre"
    /\ pc = "none"
    /\ tmo = FALSE
    /\ done = FALSE
    /\ response = <<>>
    /\ rx = <<>>
    /\ devQ = <<>>
    /\ wlog = <<"CLEAR">>
    /\ ncmd = 0
    /\ nint = 0
    /\ cmdsLeft = MaxCmds
    /\ intsLeft = MaxInts
    /\ outstanding = 0
    /\ cancelledNo = 0
    /\ lost = FALSE
    /\ lastOp = "new"
    /\ lastCmd = ""
    /\ lastReads = 0
    /\ result = "Ok"
    /\ cause = "None"
    /\ payload = <<>>
    /\ overdue = FALSE

Init ==
    /\ ScopeUnused
    /\ AfterNew

\* the device puts its next byte on the link
DevSend ==
    /\ handle \notin {"None", "Dead"}
    /\ UNCHANGED scopeVars
    /\ devQ # <<>>
    /\ rx' = Append(rx, Head(devQ))
    /\ devQ' = Tail(devQ)
    /\ UNCHANGED <<handle, pc, tmo, done, response, wlog, ncmd, cmdsLeft, nint,
                   intsLeft, outstanding, cancelledNo, lost, lastOp, lastCmd, lastReads,
                   result, cause, payload, overdue>>

(***************************************************************************)
(* The program: pure parts of exec, is_ready and generate_result.          *)
(***************************************************************************)
\* one iteration of exec's read loop and, on break, the code after the loop.
\* st: "loop" (iterate again), "ok" (Ok(String)), "err" (Err(err))
ExecIteration(resp, queue, outcome, hasTimeout, elapsed) ==
    IF outcome = "data"
    THEN LET r2 == resp \o queue IN
         IF EndsWithPrompt(r2)
         THEN IF ValidUtf8(WithoutPrompt(r2))
              THEN [st |-> "ok", err |-> "None", response |-> r2,
                    payload |-> Trim(WithoutPrompt(r2))]
              ELSE [st |-> "err", err |-> "Utf8", response |-> r2, payload |-> <<>>]
         ELSE [st |-> "loop", err |-> "None", response |-> r2, payload |-> <<>>]
    ELSE IF outcome \in {"zero", "timedout"}
    THEN IF hasTimeout /\ elapsed
         THEN [st |-> "err", err |-> "Timeout", response |-> resp, payload |-> <<>>]
         ELSE [st |-> "loop", err |-> "None", response |-> resp, payload |-> <<>>]
    ELSE [st |-> "err", err |-> "Io", response |-> resp, payload |-> <<>>]

\* BusyFleaTerminal::is_ready.  ret: "true" / "false" (Ok(bool)), "lost"
\* (Err(ConnectionLostError)), "panic"
IsReady(d, resp, queue, outcome) ==
    IF d
    THEN [ret |-> "true", done |-> TRUE, response |-> resp, rx |-> queue, reads |-> 0]
    ELSE IF outcome = "data"
    THEN LET r2 == resp \o queue IN
         [ret |-> IF EndsWithPrompt(r2) THEN "true" ELSE "false",
          done |-> EndsWithPrompt(r2), response |-> r2, rx |-> <<>>, reads |-> 1]
    ELSE IF outcome \in {"zero", "timedout"}
    THEN [ret |-> "false", done |-> FALSE, response |-> resp, rx |-> queue, reads |-> 1]
    ELSE IF outcome \in {"brokenpipe", "eof"}
    THEN [ret |-> "lost", done |-> FALSE, response |-> resp, rx |-> queue, reads |-> 1]
    ELSE [ret |-> "panic", done |-> FALSE, response |-> resp, rx |-> queue, reads |-> 1]

\* BusyFleaTerminal::generate_result: ok = FALSE is the panic of expect()
GenerateResult(resp) ==
    IF ValidUtf8(WithoutPrompt(resp))
    THEN [ok |-> TRUE, payload |-> Trim(WithoutPrompt(resp))]
    ELSE [ok |-> FALSE, payload |-> <<>>]

\* the handle initialize gives back with an error: Err((self, e))
InitializeFailHandle_Dropped == "None"
InitializeFailHandle == "Pre"

\* the handle wait() returns next to Err(ConnectionLostError)
WaitLostHandle == "Idle"

\* the response buffer of the BusyFleaTerminal that wait_timeout hands back in
\* Err((self, FleaTerminalError::Timeout { .. }))
TimeoutResponse_Cleared(resp) == <<>>
TimeoutResponse(resp) == resp

\* response: Vec::new() of the BusyFleaTerminal exec_async builds
ExecAsyncResponse_ReadsEagerly(queue) == queue
ExecAsyncResponse(queue) == <<>>

\* bookkeeping of the last API step
Hist(op, reads, res, cse) ==
    /\ lastOp' = op
    /\ lastReads' = reads
    /\ result' = res
    /\ cause' = cse

(***************************************************************************)
(* FleaPreTerminal::initialize, up to and including exec's write.          *)
(***************************************************************************)
InitializeStart ==
    /\ handle = "Pre"
    /\ UNCHANGED scopeVars
    /\ pc = "none"
    /\ intsLeft > 0
    /\ cmdsLeft > 0
    /\ \E okInt \in BOOLEAN, okCmd \in BOOLEAN, reply \in BOOLEAN, body \in Bodies(PromptOn) :
         LET q1 == DevOnInterrupt(devQ, ncmd, reply) IN
         IF ~okInt
         THEN \* send_ctrl_c failed: Err((self, e))
              /\ handle' = InitializeFailHandle
              /\ Hist("initialize", 0, "Io", "Io")
              /\ UNCHANGED <<pc, tmo, response, devQ, wlog, ncmd, cmdsLeft, nint,
                             intsLeft, outstanding>>
         ELSE IF ~okCmd
         THEN \* exec's write_all failed: Err((self, e))
              /\ handle' = InitializeFailHandle
              /\ Hist("initialize", 0, "Io", "Io")
              /\ wlog' = wlog \o <<"ETX">>
              /\ devQ' = q1
              /\ nint' = nint + 1 /\ intsLeft' = intsLeft - 1
              /\ outstanding' = 0
              /\ UNCHANGED <<pc, tmo, response, ncmd, cmdsLeft>>
         ELSE /\ handle' = "Pre"
              /\ pc' = "init"
              /\ tmo' = TRUE
              /\ response' = <<>>
              /\ Hist("initialize", 0, "Running", "None")
              /\ wlog' = wlog \o <<"ETX", PromptOn, "NL">>
              /\ devQ' = DevOnCommand(q1, ncmd + 1, body)
              /\ nint' = nint + 1 /\ intsLeft' = intsLeft - 1
              /\ ncmd' = ncmd + 1 /\ cmdsLeft' = cmdsLeft - 1
              /\ outstanding' = 1
    /\ UNCHANGED <<done, rx, cancelledNo, lost, lastCmd, payload, overdue>>

(***************************************************************************)
(* One iteration of FleaPreTerminal::exec's loop, inside initialize        *)
(* (pc = "init") or inside IdleFleaTerminal::exec_sync (pc = "exec_sync"), *)
(* with what the caller does when exec returns.                            *)
(***************************************************************************)
ExecRead ==
    /\ pc \in {"init", "exec_sync"}
    /\ UNCHANGED scopeVars
    /\ \E outcome \in ReadOutcomes(rx), elapsed \in BOOLEAN :
         LET r == ExecIteration(response, rx, outcome, tmo, elapsed) IN
         /\ response' = r.response
         /\ rx' = IF outcome = "data" THEN <<>> ELSE rx
         /\ outstanding' = IF outcome = "data" /\ r.st # "loop" THEN 0 ELSE outstanding
         /\ payload' = IF r.st = "ok" THEN r.payload ELSE payload
         /\ overdue' = (r.st = "loop" /\ tmo /\ elapsed)
         /\ IF r.st = "loop"
            THEN /\ Hist(lastOp, 1, "Running", "None")
                 /\ UNCHANGED <<handle, pc>>
            ELSE IF pc = "init"
            THEN IF r.st = "ok"
                 THEN \* exec returned Ok: go on to self.flush()
                      /\ Hist(lastOp, 1, "Running", "None")
                      /\ pc' = "init_flush"
                      /\ UNCHANGED handle
                 ELSE \* Err((self, e))
                      /\ Hist(lastOp, 1, r.err, r.err)
                      /\ pc' = "none"
                      /\ handle' = InitializeFailHandle
            ELSE IF r.st = "ok"
                 THEN /\ Hist(lastOp, 1, "Ok", "None")
                      /\ pc' = "none"
                      /\ UNCHANGED handle
                 ELSE \* .expect("Failed to execute command") panics
                      /\ Hist(lastOp, 1, "Panic", r.err)
                      /\ pc' = "none"
                      /\ handle' = "Dead"
    /\ UNCHANGED <<tmo, done, devQ, wlog, ncmd, cmdsLeft, nint, intsLeft, cancelledNo,
                   lost, lastCmd>>

\* the end of initialize: self.flush(), then Ok(IdleFleaTerminal { inner: self })
InitializeFlush ==
    /\ pc = "init_flush"
    /\ UNCHANGED scopeVars
    /\ \E okFlush \in BOOLEAN :
         IF okFlush
         THEN /\ rx' = <<>>
              /\ wlog' = wlog \o <<"CLEAR">>
              /\ handle' = "Idle"
              /\ Hist("initialize", 0, "Ok", "None")
         ELSE /\ handle' = InitializeFailHandle
              /\ Hist("initialize", 0, "SerialPort", "SerialPort")
              /\ UNCHANGED <<rx, wlog>>
    /\ pc' = "none"
    /\ UNCHANGED <<tmo, done, response, devQ, ncmd, cmdsLeft, nint, intsLeft,
                   outstanding, cancelledNo, lost, lastCmd, payload, overdue>>

(***************************************************************************)
(* IdleFleaTerminal::exec_sync, up to and including exec's write.          *)
(***************************************************************************)
ExecSyncStart ==
    /\ handle = "Idle"
    /\ UNCHANGED scopeVars
    /\ pc = "none"
    /\ cmdsLeft > 0
    /\ \E cmd \in Commands, timeout \in BOOLEAN, okCmd \in BOOLEAN :
       \E body \in Bodies(cmd) :
         /\ lastCmd' = cmd
         /\ IF okCmd
            THEN /\ wlog' = wlog \o <<cmd, "NL">>
                 /\ devQ' = DevOnCommand(devQ, ncmd + 1, body)
                 /\ ncmd' = ncmd + 1 /\ cmdsLeft' = cmdsLeft - 1
                 /\ outstanding' = outstanding + 1
                 /\ response' = <<>>
                 /\ tmo' = timeout
                 /\ pc' = "exec_sync"
                 /\ Hist("exec_sync", 0, "Running", "None")
                 /\ UNCHANGED handle
            ELSE \* exec returns Err(Io) and expect() panics
                 /\ handle' = "Dead"
                 /\ Hist("exec_sync", 0, "Panic", "Io")
                 /\ UNCHANGED <<wlog, devQ, ncmd, cmdsLeft, outstanding, response, tmo,
                                pc>>
    /\ payload' = <<>>
    /\ UNCHANGED <<done, rx, nint, intsLeft, cancelledNo, lost, overdue>>

(***************************************************************************)
(* IdleFleaTerminal::exec_async.                                           *)
(***************************************************************************)
ExecAsync ==
    /\ handle = "Idle"
    /\ UNCHANGED scopeVars
    /\ pc = "none"
    /\ cmdsLeft > 0
    /\ \E cmd \in Commands, okCmd \in BOOLEAN :
       \E body \in Bodies(cmd) :
         /\ lastCmd' = cmd
         /\ IF okCmd
            THEN /\ wlog' = wlog \o <<cmd, "NL">>
                 /\ devQ' = DevOnCommand(devQ, ncmd + 1, body)
                 /\ ncmd' = ncmd + 1 /\ cmdsLeft' = cmdsLeft - 1
                 /\ outstanding' = outstanding + 1
                 /\ response' = ExecAsyncResponse(rx)
                 /\ done' = FALSE
                 /\ handle' = "Busy"
                 /\ Hist("exec_async", 0, "Ok", "None")
            ELSE \* expect("Failed to write command to serial port") panics
                 /\ handle' = "Dead"
                 /\ Hist("exec_async", 0, "Panic", "Io")
                 /\ UNCHANGED <<wlog, devQ, ncmd, cmdsLeft, outstanding, response, done>>
    /\ payload' = <<>>
    /\ UNCHANGED <<pc, tmo, rx, nint, intsLeft, cancelledNo, lost, overdue>>

(***************************************************************************)
(* BusyFleaTerminal::is_ready called by the holder of the Busy handle.     *)
(***************************************************************************)
IsReadyPoll ==
    /\ handle = "Busy"
    /\ UNCHANGED scopeVars
    /\ pc = "none"
    /\ \E outcome \in ReadOutcomes(rx) :
         LET r == IsReady(done, response, rx, outcome) IN
         /\ done' = r.done
         /\ response' = r.response
         /\ rx' = r.rx
         /\ lost' = (lost \/ r.ret = "lost")
         /\ outstanding' = IF r.done /\ ~done THEN 0 ELSE outstanding
         /\ handle' = IF r.ret = "panic" THEN "Dead" ELSE "Busy"
         /\ Hist("is_ready", r.reads,
                 CASE r.ret = "true" -> "Ready"
                   [] r.ret = "false" -> "Pending"
                   [] r.ret = "lost" -> "ConnectionLost"
                   [] OTHER -> "Panic",
                 CASE r.ret = "lost" -> "ConnectionLost"
                   [] r.ret = "panic" -> "Io"
                   [] OTHER -> "None")
    /\ UNCHANGED <<pc, tmo, devQ, wlog, ncmd, cmdsLeft, nint, intsLeft, cancelledNo,
                   lastCmd, payload, overdue>>

(***************************************************************************)
(* One iteration of BusyFleaTerminal::wait's loop.                         *)
(***************************************************************************)
WaitStep ==
    /\ handle = "Busy"
    /\ UNCHANGED scopeVars
    /\ pc \in {"none", "wait"}
    /\ \E outcome \in ReadOutcomes(rx), elapsed \in BOOLEAN :
         LET r == IsReady(done, response, rx, outcome)
             g == GenerateResult(r.response) IN
         /\ done' = r.done
         /\ overdue' = (r.ret = "false" /\ elapsed)
         /\ response' = r.response
         /\ rx' = r.rx
         /\ lost' = (lost \/ r.ret = "lost")
         /\ outstanding' = IF r.done /\ ~done THEN 0 ELSE outstanding
         /\ CASE r.ret = "true" /\ g.ok ->
                   /\ handle' = "Idle"
                   /\ pc' = "none"
                   /\ payload' = g.payload
                   /\ Hist("wait", r.reads, "Ok", "None")
              [] r.ret = "true" /\ ~g.ok ->
                   /\ handle' = "Dead"
                   /\ pc' = "none"
                   /\ payload' = payload
                   /\ Hist("wait", r.reads, "Panic", "Utf8")
              [] r.ret = "false" ->
                   /\ handle' = "Busy"
                   /\ pc' = "wait"
                   /\ payload' = payload
                   /\ Hist("wait", r.reads, "Running", "None")
              [] r.ret = "lost" ->
                   /\ handle' = WaitLostHandle
                   /\ pc' = "none"
                   /\ payload' = payload
                   /\ Hist("wait", r.reads, "ConnectionLost", "ConnectionLost")
              [] OTHER ->
                   /\ handle' = "Dead"
                   /\ pc' = "none"
                   /\ payload' = payload
                   /\ Hist("wait", r.reads, "Panic", "Io")
    /\ UNCHANGED <<tmo, devQ, wlog, ncmd, cmdsLeft, nint, intsLeft, cancelledNo, lastCmd>>

(***************************************************************************)
(* One iteration of BusyFleaTerminal::wait_timeout's loop.                 *)
(***************************************************************************)
WaitTimeoutStep ==
    /\ handle = "Busy"
    /\ UNCHANGED scopeVars
    /\ pc \in {"none", "wait_timeout"}
    /\ \E outcome \in ReadOutcomes(rx), elapsed \in BOOLEAN :
         LET r == IsReady(done, response, rx, outcome)
             g == GenerateResult(r.response) IN
         /\ done' = r.done
         /\ response' = IF r.ret = "false" /\ elapsed THEN TimeoutResponse(r.response)
                        ELSE r.response
         /\ rx' = r.rx
         /\ lost' = (lost \/ r.ret = "lost")
         /\ outstanding' = IF r.done /\ ~done THEN 0 ELSE outstanding
         /\ CASE r.ret = "true" /\ g.ok ->
                   /\ handle' = "Idle"
                   /\ pc' = "none"
                   /\ payload' = g.payload
                   /\ Hist("wait_timeout", r.reads, "Ok", "None")
              [] r.ret = "true" /\ ~g.ok ->
                   /\ handle' = "Dead"
                   /\ pc' = "none"
                   /\ payload' = payload
                   /\ Hist("wait_timeout", r.reads, "Panic", "Utf8")
              [] r.ret = "false" /\ elapsed ->
                   \* Err((self, FleaTerminalError::Timeout { .. }))
                   /\ handle' = "Busy"
                   /\ pc' = "none"
                   /\ payload' = payload
                   /\ Hist("wait_timeout", r.reads, "Timeout", "Timeout")
              [] r.ret = "false" /\ ~elapsed ->
                   /\ handle' = "Busy"
                   /\ pc' = "wait_timeout"
                   /\ payload' = payload
                   /\ Hist("wait_timeout", r.reads, "Running", "None")
              [] r.ret = "lost" ->
                   \* Err((self, FleaTerminalError::ConnectionLost))
                   /\ handle' = "Busy"
                   /\ pc' = "none"
                   /\ payload' = payload
                   /\ Hist("wait_timeout", r.reads, "ConnectionLost", "ConnectionLost")
              [] OTHER ->
                   /\ handle' = "Dead"
                   /\ pc' = "none"
                   /\ payload' = payload
                   /\ Hist("wait_timeout", r.reads, "Panic", "Io")
         \* the timeout is looked at after every is_ready that returned Ok(false)
         /\ overdue' = (r.ret = "false" /\ elapsed /\ pc' = "wait_timeout")
    /\ UNCHANGED <<tmo, devQ, wlog, ncmd, cmdsLeft, nint, intsLeft, cancelledNo, lastCmd>>

(***************************************************************************)
(* BusyFleaTerminal::cancel.                                               *)
(***************************************************************************)
Cancel ==
    /\ handle = "Busy"
    /\ UNCHANGED scopeVars
    /\ pc = "none"
    /\ intsLeft > 0
    /\ \E okInt \in BOOLEAN, reply \in BOOLEAN :
         IF okInt
         THEN /\ wlog' = wlog \o <<"ETX">>
              /\ devQ' = DevOnInterrupt(devQ, ncmd, reply)
              /\ nint' = nint + 1 /\ intsLeft' = intsLeft - 1
              /\ outstanding' = 0
              /\ cancelledNo' = ncmd
              /\ Hist("cancel", 0, "Ok", "None")
              /\ UNCHANGED handle
         ELSE \* expect("Failed to send CTRL-C") panics
              /\ handle' = "Dead"
              /\ Hist("cancel", 0, "Panic", "Io")
              /\ UNCHANGED <<wlog, devQ, nint, intsLeft, outstanding, cancelledNo>>
    /\ UNCHANGED <<pc, tmo, done, response, rx, ncmd, cmdsLeft, lost, lastCmd, payload,
                   overdue>>

Next ==
    \/ InitializeStart
    \/ ExecRead
    \/ InitializeFlush
    \/ ExecSyncStart
    \/ ExecAsync
    \/ IsReadyPoll
    \/ WaitStep
    \/ WaitTimeoutStep
    \/ Cancel
    \/ DevSend

\* the whole life of one connection, from FleaPreTerminal::new
Spec == Init /\ [][Next]_vars

(***************************************************************************)
(* The handshake alone: FleaPreTerminal::new, then initialize as often as  *)
(* the caller retries it on the handle it gets back.                       *)
(***************************************************************************)
NextHandshake ==
    \/ InitializeStart
    \/ ExecRead
    \/ InitializeFlush
    \/ DevSend

SpecHandshake == Init /\ [][NextHandshake]_vars

(***************************************************************************)
(* A session on an IdleFleaTerminal.  It starts where the first initialize *)
(* has just returned Ok: the interrupt and "prompt on" were written, the   *)
(* buffers cleared.  When the device answered the interrupt with a prompt, *)
(* exec returned on that prompt and the answer to "prompt on" may still be *)
(* on its way.                                                             *)
(***************************************************************************)
InitSession ==
    /\ ScopeUnused
    /\ handle = "Idle"
    /\ pc = "none"
    /\ tmo = TRUE
    /\ done = FALSE
    /\ \/ \* the device stayed silent on the interrupt
          /\ response = Tag(Prompt, 1)
          /\ payload = <<>>
          /\ devQ = <<>>
       \/ \* exec returned on the interrupt's prompt
          /\ response = Tag(Prompt, 0)
          /\ payload = <<>>
          /\ devQ \in { <<>>, Tag(<<32>>, 1), Tag(Prompt, 1) }
       \/ \* exec read both prompts before it looked at the buffer's end
          /\ response = Tag(Prompt, 0) \o Tag(Prompt, 1)
          /\ payload = Tag(<<62>>, 0)
          /\ devQ = <<>>
    /\ rx = <<>>
    /\ wlog = <<"CLEAR", "ETX", PromptOn, "NL", "CLEAR">>
    /\ ncmd = 1
    /\ nint = 1
    /\ cmdsLeft = MaxSessionCmds
    /\ intsLeft = MaxSessionCancels
    /\ outstanding = 0
    /\ cancelledNo = 0
    /\ lost = FALSE
    /\ lastOp = "initialize"
    /\ lastCmd = ""
    /\ lastReads = 0
    /\ result = "Ok"
    /\ cause = "None"
    /\ overdue = FALSE

NextSession ==
    \/ ExecRead
    \/ ExecSyncStart
    \/ ExecAsync
    \/ IsReadyPoll
    \/ WaitStep
    \/ WaitTimeoutStep
    \/ Cancel
    \/ DevSend

SpecSession == InitSession /\ [][NextSession]_vars

\* the states InitSession starts from, as states of the whole-life specification
AfterFirstInitialize ==
    /\ handle = "Idle"
    /\ lastOp = "initialize"
    /\ ncmd = 1
    /\ nint = 1
    /\ rx = <<>>

(***************************************************************************)
(* The FleaScope and trigger layer (src/src/flea_scope.rs,                 *)
(* src/src/trigger_config.rs).  Its functions are sequential: a call is    *)
(* drawn with its arguments in the initial state and one action runs it.   *)
(* f64 values are kept as exact fractions; on the argument ranges used     *)
(* the f64 operations of the code yield the same i32 after the cast.       *)
(***************************************************************************)
\* how far the sampled arguments reach around each boundary value
MaxOff == 3

\* const MSPS, MCU_MHZ, INTERLEAVE, TOTAL_SAMPLES
MSPS == 18
MCU_MHZ == 120
INTERLEAVE == 5
TOTAL_SAMPLES == 2000

\* `as i32` of the fraction num / den (den > 0): truncation toward zero
TruncDiv(num, den) == IF num >= 0 THEN num \div den ELSE 0 - ((0 - num) \div den)

\* f64 values that are no whole numbers are fractions <<numerator, denominator>>
\* in lowest terms with a positive denominator
Abs(n) == IF n < 0 THEN 0 - n ELSE n

RECURSIVE GCD(_, _)
GCD(a, b) == IF b = 0 THEN a ELSE GCD(b, a % b)

Frac(n, d) ==
    LET g == GCD(Abs(n), Abs(d))
        sign == IF d < 0 THEN 0 - 1 ELSE 1
    IN  <<sign * (n \div g), Abs(d) \div g>>

\* an infinity or NaN
NotFinite == <<0, 0>>

\* the f64 operators +, -, *, /: a NaN operand gives NaN (an infinity is never
\* an operand: it only comes out of a division by 0.0 whose result is returned)
FAdd(x, y) ==
    IF x[2] = 0 \/ y[2] = 0 THEN NotFinite
    ELSE Frac(x[1] * y[2] + y[1] * x[2], x[2] * y[2])
FSub(x, y) ==
    IF x[2] = 0 \/ y[2] = 0 THEN NotFinite
    ELSE Frac(x[1] * y[2] - y[1] * x[2], x[2] * y[2])
FMul(x, y) ==
    IF x[2] = 0 \/ y[2] = 0 THEN NotFinite
    ELSE Frac(x[1] * y[1], x[2] * y[2])
FDiv(x, y) ==
    IF x[2] = 0 \/ y[2] = 0 \/ y[1] = 0 THEN NotFinite
    ELSE Frac(x[1] * y[2], x[2] * y[1])

\* the literal 3.3
V3v3 == <<33, 10>>

\* the values within MaxOff of a boundary value
Around(b) == (b - MaxOff)..(b + MaxOff)

\* FleaScope::number1_to_prescaler with the rounding left out
Number1ToPrescaler_NoRounding(number1) ==
    LET ps == IF number1 > 1000 THEN 16 ELSE 1
        t == TruncDiv(MCU_MHZ * number1 * INTERLEAVE, ps * MSPS)
    IN  IF t <= 0 THEN [st |-> "Err", err |-> "InvalidPrescalerLow", val |-> <<>>]
        ELSE IF t > 65535 THEN [st |-> "Err", err |-> "InvalidPrescalerHigh", val |-> <<>>]
        ELSE [st |-> "Ok", err |-> "", val |-> ps * t]

\* FleaScope::number1_to_prescaler: t = (120 * n * 5 / ps / 18 + 0.5) as i32,
\* i.e. the truncation of (2 * 120 * n * 5 + ps * 18) / (2 * ps * 18)
Number1ToPrescaler(number1) ==
    LET ps == IF number1 > 1000 THEN 16 ELSE 1
        t == TruncDiv(2 * MCU_MHZ * number1 * INTERLEAVE + ps * MSPS, 2 * ps * MSPS)
    IN  IF t <= 0 THEN [st |-> "Err", err |-> "InvalidPrescalerLow", val |-> <<>>]
        ELSE IF t > 65535 THEN [st |-> "Err", err |-> "InvalidPrescalerHigh", val |-> <<>>]
        ELSE [st |-> "Ok", err |-> "", val |-> ps * t]

\* tick counts passed to number1_to_prescaler: around 0, the threshold 1000 and
\* the first count whose t exceeds 65535, and the count of the unit test
Number1Args == Around(0) \cup Around(1000) \cup Around(31458) \cup {100}

(***************************************************************************)
(* Strings are sequences of one-character strings.                         *)
(***************************************************************************)
\* the digits of format!'s {} and {:x}
Digits == <<"0", "1", "2", "3", "4", "5", "6", "7", "8", "9", "a", "b", "c", "d", "e", "f">>

\* the digits of n >= 0 in the given base, most significant first
RECURSIVE DigitsOf(_, _)
DigitsOf(n, base) ==
    IF n < base THEN <<Digits[n + 1]>>
    ELSE DigitsOf(n \div base, base) \o <<Digits[(n % base) + 1]>>

\* format!("{:02x}", n) of a u32
Hex02(n) == LET d == DigitsOf(n, 16) IN IF Len(d) < 2 THEN <<"0">> \o d ELSE d

\* format!("{}", n) of an i32
Dec(n) == IF n < 0 THEN <<"-">> \o DigitsOf(0 - n, 10) ELSE DigitsOf(n, 10)

(***************************************************************************)
(* src/src/trigger_config.rs                                               *)
(***************************************************************************)
\* enum BitState
BitState == {"High", "Low", "DontCare"}

\* the largest index passed to BitTriggerBuilder::set_bit
MaxBit == 11

\* format!("Bit index {} out of range, must be between 0 and {}", bit, len - 1)
BitIndexMessage(bit, last) ==
    <<"B", "i", "t", " ", "i", "n", "d", "e", "x", " ">> \o Dec(bit)
        \o <<" ", "o", "u", "t", " ", "o", "f", " ", "r", "a", "n", "g", "e", ",", " ",
             "m", "u", "s", "t", " ", "b", "e", " ", "b", "e", "t", "w", "e", "e", "n", " ",
             "0", " ", "a", "n", "d", " ">> \o Dec(last)

\* BitTriggerBuilder::set_bit with the range test off by one
SetBit_AcceptsNine(bit_states, bit, state) ==
    IF bit > 9
    THEN [st |-> "Panic", err |-> BitIndexMessage(bit, 8), val |-> <<>>]
    ELSE [st |-> "Ok", err |-> "", val |-> [bit_states EXCEPT ![bit] = state]]

\* BitTriggerBuilder::set_bit on a builder holding bit_states (indices 0..8,
\* len 9); Ok gives the builder's bit_states after the call
SetBit(bit_states, bit, state) ==
    IF bit >= 9
    THEN [st |-> "Panic", err |-> BitIndexMessage(bit, 9 - 1), val |-> <<>>]
    ELSE [st |-> "Ok", err |-> "", val |-> [bit_states EXCEPT ![bit] = state]]

\* BitTriggerBuilder::new with every channel Low
BitTriggerBuilderNew_AllLow == [i \in 0..8 |-> "Low"]

\* BitTriggerBuilder::new: bit_states: [BitState::DontCare; 9]
BitTriggerBuilderNew == [i \in 0..8 |-> "DontCare"]

\* the builder after the chain .set_bit(calls[1])...set_bit(calls[n]) on a
\* builder holding bit_states; a panic ends the chain
RECURSIVE BuilderChain(_, _)
BuilderChain(bit_states, calls) ==
    IF calls = <<>> THEN [st |-> "Ok", err |-> "", val |-> bit_states]
    ELSE LET r == SetBit(bit_states, Head(calls).bit, Head(calls).state)
         IN  IF r.st # "Ok" THEN r ELSE BuilderChain(r.val, Tail(calls))

\* DigitalTriggerBehavior::as_str
DigitalBehaviorStr(behavior) ==
    CASE behavior = "Auto" -> <<"~">>
      [] behavior = "While" -> <<>>
      [] behavior = "Start" -> <<"+">>
      [] behavior = "Stop" -> <<"-">>

\* AnalogTriggerBehavior::as_str
AnalogBehaviorStr(behavior) ==
    CASE behavior = "Auto" -> <<"~">>
      [] behavior = "Level" -> <<>>
      [] behavior = "Rising" -> <<"+">>
      [] behavior = "Falling" -> <<"-">>

\* the loops of DigitalTrigger::into_trigger_fields: bits |= 1 << i for every
\* index i from `from` on whose state is one of `states`
RECURSIVE OrBits(_, _, _)
OrBits(bit_states, states, from) ==
    IF from > 8 THEN 0
    ELSE (IF bit_states[from] \in states THEN 2 ^ from ELSE 0)
            + OrBits(bit_states, states, from + 1)

\* DigitalTrigger::into_trigger_fields with the two masks printed in the other order
DigitalIntoTriggerFields_MasksSwapped(bit_states, behavior) ==
    DigitalBehaviorStr(behavior) \o <<"0", "x">> \o Hex02(OrBits(bit_states, {"High", "Low"}, 0))
        \o <<" ", "0", "x">> \o Hex02(OrBits(bit_states, {"High"}, 0))

\* DigitalTrigger::into_trigger_fields
DigitalIntoTriggerFields(bit_states, behavior) ==
    LET relevant_bits == OrBits(bit_states, {"High", "Low"}, 0)
        active_bits == OrBits(bit_states, {"High"}, 0)
    IN  DigitalBehaviorStr(behavior) \o <<"0", "x">> \o Hex02(active_bits)
            \o <<" ", "0", "x">> \o Hex02(relevant_bits)

\* AnalogTrigger::into_trigger_fields without the + 0.5
AnalogIntoTriggerFields_Truncating(raw, behavior) ==
    LET raw_level == TruncDiv(raw, 4)
    IN  IF raw_level < 0 - 1023 \/ raw_level > 1023
        THEN [st |-> "Err", err |-> "out of range", val |-> <<>>]
        ELSE [st |-> "Ok", err |-> "",
              val |-> AnalogBehaviorStr(behavior) \o Dec(raw_level) \o <<" ", "0">>]

\* AnalogTrigger::into_trigger_fields, raw being voltage_to_raw(self.level):
\* raw_level = (raw / 4.0 + 0.5) as i32, the truncation of (raw + 2) / 4
AnalogIntoTriggerFields(raw, behavior) ==
    LET raw_level == TruncDiv(raw + 2, 4)
    IN  IF raw_level < 0 - 1023 \/ raw_level > 1023
        THEN [st |-> "Err", err |-> "out of range", val |-> <<>>]
        ELSE [st |-> "Ok", err |-> "",
              val |-> AnalogBehaviorStr(behavior) \o Dec(raw_level) \o <<" ", "0">>]

\* the raw values voltage_to_raw may give for a trigger level: every whole value
\* up to MaxRaw either side of zero, and the value of the out-of-range unit test
MaxRaw == 4100
RawArgs == (0 - MaxRaw)..MaxRaw \cup {10000}

(***************************************************************************)
(* src/src/flea_scope.rs.  A Duration is its whole microseconds (as_micros) *)
(* and the nanoseconds beyond them; the probe's calibration is two options  *)
(* (calZero, cal3v3: is_some) with their values (zero, span).  `outcome` is *)
(* what the device and the link do with a command passed to serial.exec:   *)
(* "ok", "err" (exec returns Err) or "badcsv" (a response that is no CSV).  *)
(***************************************************************************)
ExecOutcomes == {"ok", "err", "badcsv"}

\* a call that returned Err(err) after passing the commands `sent` to serial.exec
Fail(err, sent) == [res |-> [st |-> "Err", err |-> err, val |-> <<>>], sent |-> sent]

\* format!("scope {} {} {}", number1, trigger_fields, delay_samples)
ScopeCommand(number1, trigger_fields, delay_samples) ==
    <<"s", "c", "o", "p", "e", " ">> \o Dec(number1) \o <<" ">> \o trigger_fields
        \o <<" ">> \o Dec(delay_samples)

\* FleaScope::raw_read(time_frame, trigger_fields, delay); Duration is unsigned,
\* so the two `< 0.0` tests never fire
RawRead(us, sub, trigger_fields, delayUs, delaySub, outcome) ==
    LET number1 == (MSPS * us) \div TOTAL_SAMPLES
        p == Number1ToPrescaler(number1)
        \* (delay_us * effective_msps / 1_000_000.0) as i32, effective_msps = 120 * 5 / prescaler
        delay_samples == ((delayUs * MCU_MHZ * INTERLEAVE) \div p.val) \div 1000000
        command == ScopeCommand(number1, trigger_fields, delay_samples)
    IN  IF us > 3490000 \/ (us = 3490000 /\ sub > 0) THEN Fail("TimeFrameTooLarge", <<>>)
        ELSE IF us < 111 THEN Fail("TimeFrameTooSmall", <<>>)
        ELSE IF delayUs > 1000000 \/ (delayUs = 1000000 /\ delaySub > 0)
        THEN Fail("DelayTooLarge", <<>>)
        ELSE IF number1 <= 0 THEN Fail("InvalidTicksPerSample", <<>>)
        ELSE IF p.st = "Err" THEN Fail(p.err, <<>>)
        ELSE IF delay_samples > 1000000 THEN Fail("DelaySamplesTooLarge", <<>>)
        ELSE IF outcome = "err" THEN Fail("SerialTerminal", <<command>>)
        ELSE IF outcome = "badcsv"
        THEN \* .finish().unwrap() panics
             [res |-> [st |-> "Panic", err |-> "", val |-> <<>>], sent |-> <<command>>]
        ELSE [res |-> [st |-> "Ok", err |-> "",
                       val |-> [number1 |-> number1, prescaler |-> p.val,
                                delay_samples |-> delay_samples]],
              sent |-> <<command>>]

\* FleaProbe::voltage_to_raw / raw_to_voltage succeed only with both values set
Calibrated(a) == a.calZero /\ a.cal3v3

\* FleaProbe::set_calibration on any probe
SetCalibration(offset_0, offset_3v3) ==
    [calZero |-> TRUE, zero |-> offset_0, cal3v3 |-> TRUE, span |-> offset_3v3]

\* FleaProbe::voltage_to_raw on the probe p: (voltage / 3.3 * cal_3v3) + cal_zero
VoltageToRaw(p, voltage) ==
    IF ~p.calZero THEN [st |-> "Err", err |-> "CalibrationNotSet", val |-> <<>>]
    ELSE IF ~p.cal3v3 THEN [st |-> "Err", err |-> "CalibrationNotSet", val |-> <<>>]
    ELSE [st |-> "Ok", err |-> "", val |-> FAdd(FMul(FDiv(voltage, V3v3), p.span), p.zero)]

\* FleaProbe::raw_to_voltage without the subtraction of cal_zero
RawToVoltage_NoOffset(p, raw_value) ==
    IF ~p.calZero THEN [st |-> "Err", err |-> "CalibrationNotSet", val |-> <<>>]
    ELSE IF ~p.cal3v3 THEN [st |-> "Err", err |-> "CalibrationNotSet", val |-> <<>>]
    ELSE IF p.span[1] = 0 THEN [st |-> "Ok", err |-> "", val |-> NotFinite]
    ELSE [st |-> "Ok", err |-> "", val |-> FMul(FDiv(raw_value, p.span), V3v3)]

\* FleaProbe::raw_to_voltage on the probe p, for one value of the column:
\* (raw_value - cal_zero) / cal_3v3 * 3.3; a division by 0.0 gives an infinity
\* or NaN
RawToVoltage(p, raw_value) ==
    IF ~p.calZero THEN [st |-> "Err", err |-> "CalibrationNotSet", val |-> <<>>]
    ELSE IF ~p.cal3v3 THEN [st |-> "Err", err |-> "CalibrationNotSet", val |-> <<>>]
    ELSE IF p.span[1] = 0 THEN [st |-> "Ok", err |-> "", val |-> NotFinite]
    ELSE [st |-> "Ok", err |-> "",
          val |-> FMul(FDiv(FSub(raw_value, p.zero), p.span), V3v3)]

\* FleaScope::read with a level trigger, not an auto trigger, as the default
Read_DefaultLevelTrigger(a, outcome) ==
    LET analog == IF a.trig = "none" THEN AnalogIntoTriggerFields(a.zero, "Level")
                  ELSE AnalogIntoTriggerFields(a.raw, a.beh)
        trigger_fields == IF a.trig = "digital" THEN DigitalIntoTriggerFields(a.bits, a.beh)
                          ELSE analog.val
        r == RawRead(a.us, a.sub, trigger_fields, a.delayUs, a.delaySub, outcome)
    IN  IF a.trig # "digital" /\ ~Calibrated(a)
        THEN \* probe_ref.voltage_to_raw(v).unwrap() panics
             [res |-> [st |-> "Panic", err |-> "", val |-> <<>>], sent |-> <<>>]
        ELSE IF a.trig # "digital" /\ analog.st = "Err"
        THEN \* .map_err(|_| FleaScopeError::CalibrationNotSet)?
             Fail("CalibrationNotSet", <<>>)
        ELSE IF r.res.st # "Ok" THEN r
        ELSE IF ~Calibrated(a)
        THEN \* probe_ref.raw_to_voltage(col("bnc"))?
             Fail("CalibrationNotSet", r.sent)
        ELSE r

\* FleaScope::read(probe, time_frame, trigger, delay); a.trig is "none" (None),
\* "analog" or "digital"; a.raw is what voltage_to_raw gives for the analog level,
\* and for None the level is 0.0, whose raw value is cal_zero
Read(a, outcome) ==
    LET analog == IF a.trig = "none" THEN AnalogIntoTriggerFields(a.zero, "Auto")
                  ELSE AnalogIntoTriggerFields(a.raw, a.beh)
        trigger_fields == IF a.trig = "digital" THEN DigitalIntoTriggerFields(a.bits, a.beh)
                          ELSE analog.val
        r == RawRead(a.us, a.sub, trigger_fields, a.delayUs, a.delaySub, outcome)
    IN  IF a.trig # "digital" /\ ~Calibrated(a)
        THEN \* probe_ref.voltage_to_raw(v).unwrap() panics
             [res |-> [st |-> "Panic", err |-> "", val |-> <<>>], sent |-> <<>>]
        ELSE IF a.trig # "digital" /\ analog.st = "Err"
        THEN \* .map_err(|_| FleaScopeError::CalibrationNotSet)?
             Fail("CalibrationNotSet", <<>>)
        ELSE IF r.res.st # "Ok" THEN r
        ELSE IF ~Calibrated(a)
        THEN \* probe_ref.raw_to_voltage(col("bnc"))?
             Fail("CalibrationNotSet", r.sent)
        ELSE r

\* the trigger fields of DigitalTrigger::start_capturing_when().is_matching()
StableTriggerFields == DigitalIntoTriggerFields([i \in 0..8 |-> "DontCare"], "While")

\* bnc_values.iter().sum::<f64>()
RECURSIVE SeqSum(_)
SeqSum(values) == IF values = <<>> THEN 0 ELSE Head(values) + SeqSum(Tail(values))

\* the folds with f64::min from INFINITY and f64::max from NEG_INFINITY, on
\* values that are not empty
SeqMin(values) ==
    CHOOSE x \in {values[i] : i \in 1..Len(values)} : \A i \in 1..Len(values) : x <= values[i]
SeqMax(values) ==
    CHOOSE x \in {values[i] : i \in 1..Len(values)} : \A i \in 1..Len(values) : x >= values[i]

\* the evaluation with a signal counting as stable up to a spread below 14 only
StableValue_SpreadBelow14(bnc_values, sent) ==
    IF bnc_values # <<>> /\ SeqMax(bnc_values) - SeqMin(bnc_values) >= 14
    THEN [res |-> [st |-> "Err", err |-> "SignalNotStable",
                   val |-> [min |-> SeqMin(bnc_values), max |-> SeqMax(bnc_values)]],
          sent |-> sent]
    ELSE [res |-> [st |-> "Ok", err |-> "",
                   val |-> IF bnc_values = <<>> THEN NotFinite
                           ELSE Frac(SeqSum(bnc_values), Len(bnc_values))],
          sent |-> sent]

\* the evaluation of the captured bnc values shared by calibrate_zero,
\* calibrate_3v3 and read_stable_value_for_calibration: SignalNotStable when
\* max - min > 14.0, else the mean.  On no values max - min is -inf and the
\* mean 0.0 / 0.0
StableValue(bnc_values, sent) ==
    IF bnc_values # <<>> /\ SeqMax(bnc_values) - SeqMin(bnc_values) > 14
    THEN [res |-> [st |-> "Err", err |-> "SignalNotStable",
                   val |-> [min |-> SeqMin(bnc_values), max |-> SeqMax(bnc_values)]],
          sent |-> sent]
    ELSE [res |-> [st |-> "Ok", err |-> "",
                   val |-> IF bnc_values = <<>> THEN NotFinite
                           ELSE Frac(SeqSum(bnc_values), Len(bnc_values))],
          sent |-> sent]

\* FleaProbe::read_stable_value_for_calibration(scope); bnc_values are the
\* values of the capture the device returns
ReadStableValue(bnc_values, outcome) ==
    LET r == RawRead(20000, 0, StableTriggerFields, 0, 0, outcome)
    IN  IF r.res.st # "Ok" THEN r ELSE StableValue(bnc_values, r.sent)

\* FleaScope's copy of it in calibrate_zero and calibrate_3v3, which returns
\* DataParsing("No data received") on no values
ReadStableValueChecked(bnc_values, outcome) ==
    LET r == RawRead(20000, 0, StableTriggerFields, 0, 0, outcome)
    IN  IF r.res.st # "Ok" THEN r
        ELSE IF bnc_values = <<>> THEN Fail("DataParsing", r.sent)
        ELSE StableValue(bnc_values, r.sent)

\* the probe after a zero calibration that leaves cal_3v3 as it was
ReZeroed_KeepsSpan(p, cal_zero) == [p EXCEPT !.calZero = TRUE, !.zero = cal_zero]

\* the probe after a zero calibration gave cal_zero: the raw value of 3.3 V,
\* voltage_to_raw(3.3) taken beforehand, stays where it was
ReZeroed(p, cal_zero) ==
    IF p.calZero /\ p.cal3v3
    THEN [p EXCEPT !.calZero = TRUE, !.zero = cal_zero,
                   !.span = IF cal_zero = NotFinite THEN NotFinite
                            ELSE FSub(VoltageToRaw(p, V3v3).val, cal_zero)]
    ELSE [p EXCEPT !.calZero = TRUE, !.zero = cal_zero]

\* FleaScope::calibrate_zero(probe) on the probe p
CalibrateZero(p, bnc_values, outcome) ==
    LET r == ReadStableValueChecked(bnc_values, outcome)
    IN  IF r.res.st # "Ok" THEN r
        ELSE [res |-> r.res, sent |-> r.sent, probe |-> ReZeroed(p, r.res.val)]

\* FleaProbe::calibrate_0(scope) on the probe p
ProbeCalibrate0(p, bnc_values, outcome) ==
    LET r == ReadStableValue(bnc_values, outcome)
    IN  IF r.res.st # "Ok" THEN r
        ELSE [res |-> r.res, sent |-> r.sent, probe |-> ReZeroed(p, r.res.val)]

\* the probe after a full-scale calibration that stores the mean itself
FullScaled_SpanIsMean(p, raw_3v3) == [p EXCEPT !.cal3v3 = TRUE, !.span = raw_3v3]

\* the probe after a full-scale calibration read raw_3v3: cal_3v3 = raw_3v3 - cal_zero
FullScaled(p, raw_3v3) ==
    [p EXCEPT !.cal3v3 = TRUE,
              !.span = IF raw_3v3 = NotFinite THEN NotFinite ELSE FSub(raw_3v3, p.zero)]

\* FleaScope::calibrate_3v3(probe) on the probe p; Ok returns cal_3v3
Calibrate3v3(p, bnc_values, outcome) ==
    LET r == ReadStableValueChecked(bnc_values, outcome)
        after == FullScaled(p, r.res.val)
    IN  IF ~p.calZero THEN Fail("ZeroCalibrationRequired", <<>>)
        ELSE IF r.res.st # "Ok" THEN r
        ELSE [res |-> [st |-> "Ok", err |-> "", val |-> after.span], sent |-> r.sent,
              probe |-> after]

\* FleaProbe::calibrate_3v3(scope) on the probe p
ProbeCalibrate3v3(p, bnc_values, outcome) ==
    LET r == ReadStableValue(bnc_values, outcome)
        after == FullScaled(p, r.res.val)
    IN  IF ~p.calZero THEN Fail("ZeroCalibrationRequired", <<>>)
        ELSE IF r.res.st # "Ok" THEN r
        ELSE [res |-> [st |-> "Ok", err |-> "", val |-> after.span], sent |-> r.sent,
              probe |-> after]

\* format!("cal_zero_x{} = {}", multiplier, zero_value) for the x1 probe
CalZeroCommand(zero_value) ==
    <<"c", "a", "l", "_", "z", "e", "r", "o", "_", "x", "1", " ", "=", " ">> \o Dec(zero_value)

\* format!("cal_3v3_x{} = {}", multiplier, v3v3_value) for the x1 probe
Cal3v3Command(v3v3_value) ==
    <<"c", "a", "l", "_", "3", "v", "3", "_", "x", "1", " ", "=", " ">> \o Dec(v3v3_value)

\* FleaScope::write_calibration_to_flash(probe) for the x1 probe; first and second
\* are the outcomes of the two serial.exec calls
WriteCalibrationToFlash(a, first, second) ==
    LET \* (cal_zero - 2048.0 + 1000.0 + 0.5) as i32
        zero_value == TruncDiv(2 * (a.zero - 2048 + 1000) + 1, 2)
        \* (cal_3v3 * multiplier as f64 + 1000.0 + 0.5) as i32
        v3v3_value == TruncDiv(2 * (a.span + 1000) + 1, 2)
    IN  IF ~a.calZero \/ ~a.cal3v3 THEN Fail("CalibrationNotSet", <<>>)
        ELSE IF first = "err" THEN Fail("SerialTerminal", <<CalZeroCommand(zero_value)>>)
        ELSE IF second = "err"
        THEN Fail("SerialTerminal", <<CalZeroCommand(zero_value), Cal3v3Command(v3v3_value)>>)
        ELSE [res |-> [st |-> "Ok", err |-> "", val |-> <<>>],
              sent |-> <<CalZeroCommand(zero_value), Cal3v3Command(v3v3_value)>>]

\* str::parse::<i32> of the digits s (not empty, all decimal digits)
RECURSIVE ParseDigits(_)
ParseDigits(s) ==
    LET last == CHOOSE v \in 0..9 : Digits[v + 1] = s[Len(s)]
    IN  IF Len(s) = 1 THEN last ELSE 10 * ParseDigits(SubSeq(s, 1, Len(s) - 1)) + last

\* str::parse::<i32>: an optional sign and at least one decimal digit
ParseI32(s) ==
    LET body == IF s # <<>> /\ s[1] \in {"+", "-"} THEN Tail(s) ELSE s
    IN  IF body = <<>> \/ \E i \in 1..Len(body) : \A v \in 1..10 : Digits[v] # body[i]
        THEN [ok |-> FALSE, val |-> 0]
        ELSE [ok |-> TRUE,
              val |-> IF s[1] = "-" THEN 0 - ParseDigits(body) ELSE ParseDigits(body)]

\* format!("dim cal_zero_x{} as flash, cal_3v3_x{} as flash", multiplier, multiplier)
DimCommand(multiplier) ==
    <<"d", "i", "m", " ", "c", "a", "l", "_", "z", "e", "r", "o", "_", "x">> \o Dec(multiplier)
        \o <<" ", "a", "s", " ", "f", "l", "a", "s", "h", ",", " ",
             "c", "a", "l", "_", "3", "v", "3", "_", "x">> \o Dec(multiplier)
        \o <<" ", "a", "s", " ", "f", "l", "a", "s", "h">>

\* format!("print cal_zero_x{}", multiplier)
PrintCalZeroCommand(multiplier) ==
    <<"p", "r", "i", "n", "t", " ", "c", "a", "l", "_", "z", "e", "r", "o", "_", "x">>
        \o Dec(multiplier)

\* format!("print cal_3v3_x{}", multiplier)
PrintCal3v3Command(multiplier) ==
    <<"p", "r", "i", "n", "t", " ", "c", "a", "l", "_", "3", "v", "3", "_", "x">>
        \o Dec(multiplier)

\* FleaProbe::read_calibration_from_flash(serial) on the probe p; oks tells for
\* each of the three serial.exec calls whether it returns Ok, zeroText and
\* v3v3Text are the (trimmed) responses to the two print commands
ReadCalibrationFromFlash(p, multiplier, oks, zeroText, v3v3Text) ==
    LET cal_zero_raw == ParseI32(zeroText)
        cal_3v3_raw == ParseI32(v3v3Text)
        \* (cal_zero_raw - 1000) as f64 + 2048.0
        zero == Frac(cal_zero_raw.val - 1000 + 2048, 1)
        \* (cal_3v3_raw - 1000) as f64 / self.multiplier as f64
        v3v3 == Frac(cal_3v3_raw.val - 1000, multiplier)
        dim == <<DimCommand(multiplier)>>
        dimZero == dim \o <<PrintCalZeroCommand(multiplier)>>
        all == dimZero \o <<PrintCal3v3Command(multiplier)>>
        loaded == [calZero |-> TRUE, zero |-> zero, cal3v3 |-> TRUE, span |-> v3v3]
    IN  IF ~oks[1] THEN Fail("SerialTerminal", dim)
        ELSE IF ~oks[2] THEN Fail("SerialTerminal", dimZero)
        ELSE IF ~cal_zero_raw.ok THEN Fail("CalibrationNotSet", dimZero)
        ELSE IF ~oks[3] THEN Fail("SerialTerminal", all)
        ELSE IF ~cal_3v3_raw.ok THEN Fail("CalibrationNotSet", all)
        ELSE IF zero = v3v3
        THEN \* (zero - v3v3).abs() < f64::EPSILON, after both values were stored
             [res |-> [st |-> "Err", err |-> "CalibrationValuesEqual", val |-> zero],
              sent |-> all, probe |-> loaded]
        ELSE [res |-> [st |-> "Ok", err |-> "", val |-> <<>>], sent |-> all,
              probe |-> loaded]

\* `as i32` of an f64: truncation toward zero, NaN gives 0
AsI32(x) == IF x[2] = 0 THEN 0 ELSE TruncDiv(x[1], x[2])

\* format!("cal_zero_x{} = {}", self.multiplier, zero_value)
CalZeroCommandFor(multiplier, zero_value) ==
    CalZeroVar(multiplier) \o <<" ", "=", " ">> \o Dec(zero_value)

\* format!("cal_3v3_x{} = {}", self.multiplier, v3v3_value)
Cal3v3CommandFor(multiplier, v3v3_value) ==
    Cal3v3Var(multiplier) \o <<" ", "=", " ">> \o Dec(v3v3_value)

\* (cal_zero - 2048.0 + 1000.0 + 0.5) as i32
ZeroValue(cal_zero) ==
    AsI32(FAdd(FAdd(FSub(cal_zero, <<2048, 1>>), <<1000, 1>>), <<1, 2>>))

\* (cal_3v3 * self.multiplier as f64 + 1000.0 + 0.5) as i32
V3v3Value(cal_3v3, multiplier) ==
    AsI32(FAdd(FAdd(FMul(cal_3v3, <<multiplier, 1>>), <<1000, 1>>), <<1, 2>>))

\* FleaProbe::write_calibration_to_flash(serial) on the probe p of the given
\* multiplier (FleaScope::write_calibration_to_flash(probe) is a copy of it
\* on get_probe(probe)); first and second are the outcomes of the two exec calls
ProbeWriteCalibrationToFlash(p, multiplier, first, second) ==
    LET zero == CalZeroCommandFor(multiplier, ZeroValue(p.zero))
        v3v3 == Cal3v3CommandFor(multiplier, V3v3Value(p.span, multiplier))
    IN  IF ~p.calZero \/ ~p.cal3v3 THEN Fail("CalibrationNotSet", <<>>)
        ELSE IF first = "err" THEN Fail("SerialTerminal", <<zero>>)
        ELSE IF second = "err" THEN Fail("SerialTerminal", <<zero, v3v3>>)
        ELSE [res |-> [st |-> "Ok", err |-> "", val |-> <<>>], sent |-> <<zero, v3v3>>]

\* the device executes the assignment `<name> = <value>`: the variable of
\* that name, if it has one, now holds the value
DevAssign(fl, command) ==
    [v \in FlashVars |->
        LET head == v \o <<" ", "=", " ">>
        IN  IF Len(command) > Len(head) /\ SubSeq(command, 1, Len(head)) = head
            THEN SubSeq(command, Len(head) + 1, Len(command))
            ELSE fl[v]]

\* the device after the commands of a call: each one whose exec returned took effect
RECURSIVE DevAssignAll(_, _)
DevAssignAll(fl, commands) ==
    IF commands = <<>> THEN fl
    ELSE DevAssignAll(DevAssign(fl, Head(commands)), Tail(commands))

\* get_probe_mut always selecting x1
GetProbeMut_AlwaysX1(ps, m, p) == [ps EXCEPT ![1] = p]

\* *self.get_probe_mut(probe) = p: the probes ps with the selected one replaced
GetProbeMut(ps, m, p) == [ps EXCEPT ![m] = p]

\* what a device does with a command of the teardown: it answers ("ok"), the
\* link fails ("err": the device is disconnected), or it stays silent
DropOutcomes == {"ok", "err", "silent"}

\* serial.exec(cmd, None) on a device that stays silent: every serial.read
\* gives Ok(0) or TimedOut, and exec returns only if an iteration of its loop
\* does not ask for another one
ExecOnSilentDevice ==
    IF \A outcome \in {"zero", "timedout"}, elapsed \in BOOLEAN :
          ExecIteration(<<>>, <<>>, outcome, FALSE, elapsed).st = "loop"
    THEN "Blocked"
    ELSE "Err"

\* "echo on" and "prompt on"
EchoOnCommand == <<"e", "c", "h", "o", " ", "o", "n">>
PromptOnCommand == <<"p", "r", "o", "m", "p", "t", " ", "o", "n">>

\* Drop for FleaScope: let _ = exec("echo on", None); let _ = exec("prompt on", None).
\* st "Blocked": the call does not return
Drop(first, second) ==
    LET blocks(o) == o = "silent" /\ ExecOnSilentDevice = "Blocked"
    IN  IF blocks(first)
        THEN [res |-> [st |-> "Blocked", err |-> "", val |-> <<>>], sent |-> <<EchoOnCommand>>]
        ELSE IF blocks(second)
        THEN [res |-> [st |-> "Blocked", err |-> "", val |-> <<>>],
              sent |-> <<EchoOnCommand, PromptOnCommand>>]
        ELSE [res |-> [st |-> "Ok", err |-> "", val |-> <<>>],
              sent |-> <<EchoOnCommand, PromptOnCommand>>]

(***************************************************************************)
(* src/src/flea_connector.rs                                               *)
(* An Option is a sequence: None is <<>>, Some(x) is <<x>>.                *)
(***************************************************************************)
\* valid_vendor_product_variants: (0x0403, 0xa660), (0x1b4f, 0xa660),
\* (0x1b4f, 0xe66e), (0x04d8, 0xe66e)
ValidVendorProductVariants ==
    {<<1027, 42592>>, <<6991, 42592>>, <<6991, 58990>>, <<1240, 58990>>}

\* FleaConnector::validate_device accepting every known vendor with every known product
ValidateDevice_AnyKnownIds(name, port_info) ==
    LET is_valid_variant ==
            /\ \E t \in ValidVendorProductVariants : port_info.vid = t[1]
            /\ \E t \in ValidVendorProductVariants : port_info.pid = t[2]
    IN  IF port_info.portType # "UsbPort" THEN FALSE
        ELSE IF ~is_valid_variant THEN FALSE
        ELSE IF name # <<>>
        THEN IF port_info.product # <<>>
             THEN IF port_info.product[1] # name[1] THEN FALSE ELSE TRUE
             ELSE FALSE
        ELSE TRUE

\* FleaConnector::validate_device(name, port_info)
ValidateDevice(name, port_info) ==
    LET is_valid_variant ==
            \E t \in ValidVendorProductVariants :
                port_info.vid = t[1] /\ port_info.pid = t[2]
    IN  IF port_info.portType # "UsbPort" THEN FALSE
        ELSE IF ~is_valid_variant THEN FALSE
        ELSE IF name # <<>>
        THEN IF port_info.product # <<>>
             THEN IF port_info.product[1] # name[1] THEN FALSE ELSE TRUE
             ELSE FALSE
        ELSE TRUE

\* FleaConnector::get_available_devices(name) on the listed ports: the ports
\* validate_device accepts, in the order of the listing
GetAvailableDevices(name, ports) ==
    SelectSeq(ports, LAMBDA port_info : ValidateDevice(name, port_info))

\* FleaConnector::get_device_port(name): "Ok" stands for Ok(port) of the first
\* device; okPorts is FALSE when serialport::available_ports() fails
GetDevicePort(name, ports, okPorts) ==
    IF ~okPorts THEN "SerialPort"
    ELSE IF GetAvailableDevices(name, ports) = <<>> THEN "DeviceNotFound"
    ELSE "Ok"

\* what the device on the bus does: it answers commands, it stays silent, it
\* sends bytes without ever sending the marker, or it is unplugged
Devs == {"answering", "silent", "babbling", "gone"}

\* the port of a FleaScope (the unit test's) and the port of another USB device
FleaPort == [portType |-> "UsbPort", vid |-> 1027, pid |-> 42592, product |-> <<"FleaScope">>]
ForeignPort == [portType |-> "UsbPort", vid |-> 4660, pid |-> 22136, product |-> <<>>]

\* serialport::available_ports() with the device in state d
AvailablePorts(d, foreign) ==
    (IF foreign THEN <<ForeignPort>> ELSE <<>>) \o (IF d = "gone" THEN <<>> ELSE <<FleaPort>>)

\* serial.initialize() on a device in state d: the interrupt cannot be written
\* to an unplugged device; otherwise exec("prompt on", Some(1 s)) decides, and
\* "loop" says that it does not return
InitializeResult(d) ==
    LET r == ExecIteration(<<>>,
                           CASE d = "answering" -> Tag(Prompt, 1)
                             [] d = "babbling" -> Tag(<<97>>, 1)
                             [] OTHER -> <<>>,
                           IF d = "silent" THEN "timedout" ELSE "data", TRUE, TRUE)
    IN  IF d = "gone" THEN "Io"
        ELSE IF r.st = "ok" THEN "Ok"
        ELSE IF r.st = "loop" THEN "loop"
        ELSE r.err

\* get_working_serial retrying on every error of initialize
RetryOn_AnyError(e) == e # "Ok"

\* the arm Err(FleaTerminalError::Timeout { .. }) of get_working_serial
RetryOn(e) == e = "Timeout"

(***************************************************************************)
(* The calls and their arguments.                                          *)
(***************************************************************************)
\* whole microseconds of the time frames: around the two limits, and 1 ms, 20 ms
DurationUs == Around(111) \cup Around(3490000) \cup {1000, 20000}

\* whole microseconds of the delays: none, 1 ms, and around the limit of 1 s
DelayUs == {0, 1000} \cup Around(1000000)

\* nanoseconds beyond the whole microseconds
SubNs == {0, 500}

\* the calibration states of the probe: nothing set, zero only, both (2048.0,
\* 1000.0); cal_3v3 is never set on a probe without cal_zero
Calibrations ==
    { [NoCall EXCEPT !.calZero = c[1], !.cal3v3 = c[2], !.zero = IF c[1] THEN 2048 ELSE 0,
                     !.span = IF c[2] THEN 1000 ELSE 0] :
          c \in {<<FALSE, FALSE>>, <<TRUE, FALSE>>, <<TRUE, TRUE>>} }

\* values of cal_zero for a capture without trigger: around 0, the mid-scale
\* value 2048 and the first value whose quarter leaves [-1023, 1023], and two
\* values below zero
ZeroArgs == Around(0) \cup Around(2048) \cup Around(4094) \cup {0 - 11, 0 - 9}

\* the probes the two conversions are called on: without calibration, with
\* cal_zero only, and with both for several values of either (cal_3v3 = 0.0
\* is what a full-scale calibration at the zero level leaves)
ConversionProbes ==
    Calibrations
        \cup { [NoCall EXCEPT !.calZero = TRUE, !.cal3v3 = TRUE, !.zero = z, !.span = n] :
                   z \in {0, 2048, 2049}, n \in {0 - 7, 0, 3, 1000} }

\* the voltages converted
Volts == { <<0 - 33, 10>>, <<0, 1>>, <<1, 10>>, <<3, 2>>, <<33, 10>>, <<5, 1>> }

\* the raw values converted back on the probe of the call record c: what
\* voltage_to_raw gives on that probe, and the raw values 0 and 3048 (the unit
\* test's)
RawValues(c) ==
    { <<0, 1>>, <<3048, 1>> }
        \cup (IF Calibrated(c) THEN { VoltageToRaw(ProbeOf(c), v).val : v \in Volts }
              ELSE {})

\* the captures of a calibration: up to MaxSamples values, a spread of 14 and
\* of 15 among them
MaxSamples == 3
SampleValues == {2040, 2048, 2054, 2055}
Captures == UNION { [1..n -> SampleValues] : n \in 0..MaxSamples }

\* what the device prints for a stored calibration value: numbers (among them
\* the factory value 1000 and pairs that load as equal values), nothing, text
FlashValues == {0 - 1048, 0, 1000, 3048, 11480}
FlashTexts ==
    { Dec(n) : n \in FlashValues } \cup { <<>>, <<"x">>, <<"1", "2", "a">>, <<"+", "5">> }

\* serialport::SerialPortType
PortTypes == {"UsbPort", "PciPort", "BluetoothPort", "Unknown"}

\* vendor and product IDs of a USB port: those of the table and those of the
\* unit test (0x1234, 0x5678)
VendorIds == {1027, 6991, 1240, 4660}
ProductIds == {42592, 58990, 22136}

\* a name filter or an advertised product name
DeviceNames == {<<>>, <<"FleaScope">>, <<"OtherDevice">>}

\* the bit_states of the unit test: bit0 High, bit1 Low
\* set_bit calls in a builder chain
MaxBuilderCalls == 2

\* the indices the chains pass to set_bit: every channel, and 9
BuilderBits == 0..9

TestBits == [i \in 0..8 |-> IF i = 0 THEN "High" ELSE IF i = 1 THEN "Low" ELSE "DontCare"]

\* the triggers passed to read: None, analog triggers in and out of range, digital ones
ReadTriggers ==
    { [NoCall EXCEPT !.trig = "none"] }
        \cup { [NoCall EXCEPT !.trig = "analog", !.beh = "Rising", !.raw = r] :
                   r \in {150, 4094, 10000} }
        \cup { [NoCall EXCEPT !.trig = "digital", !.beh = "While", !.bits = b] :
                   b \in {NoCall.bits, TestBits} }

\* a FleaScope on a connected terminal, about to run one call of the layer
InitScope ==
    /\ AfterNew
    /\ scopeRes = Pending
    /\ scopeSent = <<>>
    /\ CalUnused
    /\ ConnUnused
    /\ \/ \E n \in Number1Args :
             scopeArg = [NoCall EXCEPT !.op = "number1_to_prescaler", !.n = n]
       \/ \E b \in [0..8 -> BitState], h \in {"Auto", "While", "Start", "Stop"} :
             scopeArg = [NoCall EXCEPT !.op = "digital_into_trigger_fields", !.bits = b,
                                       !.beh = h]
       \/ \E b \in {NoCall.bits, TestBits}, i \in 0..MaxBit, t \in BitState :
             scopeArg = [NoCall EXCEPT !.op = "set_bit", !.bits = b, !.bit = i, !.state = t]
       \/ \E n \in 0..MaxBuilderCalls, h \in {"Auto", "While", "Start", "Stop"} :
             \E c \in [1..n -> [bit : BuilderBits, state : BitState]] :
                scopeArg = [NoCall EXCEPT !.op = "builder", !.calls = c, !.beh = h]
       \/ \E r \in RawArgs, h \in {"Auto", "Level", "Rising", "Falling"} :
             scopeArg = [NoCall EXCEPT !.op = "analog_into_trigger_fields", !.raw = r,
                                       !.beh = h]
       \/ \E u \in DurationUs, n \in SubNs, d \in DelayUs, m \in SubNs :
             scopeArg = [NoCall EXCEPT !.op = "raw_read", !.trig = "digital",
                                       !.beh = "While", !.us = u, !.sub = n,
                                       !.delayUs = d, !.delaySub = m]
       \/ \E t \in ReadTriggers, u \in DurationUs, n \in SubNs, d \in DelayUs,
             m \in SubNs, c \in Calibrations :
             scopeArg = [t EXCEPT !.op = "read", !.us = u, !.sub = n, !.delayUs = d,
                                  !.delaySub = m, !.calZero = c.calZero,
                                  !.cal3v3 = c.cal3v3, !.zero = c.zero, !.span = c.span]
       \/ \E c \in ConversionProbes, v \in Volts :
             scopeArg = [c EXCEPT !.op = "voltage_to_raw", !.v = v]
       \/ \E c \in ConversionProbes : \E r \in RawValues(c) :
             scopeArg = [c EXCEPT !.op = "raw_to_voltage", !.rawq = r]
       \/ \E z \in {0, 2048}, n \in {0, 1000} :
             scopeArg = [NoCall EXCEPT !.op = "set_calibration", !.zero = z, !.span = n]
       \/ \E z \in ZeroArgs, u \in {1000, 20000}, d \in {0, 1000} :
             scopeArg = [NoCall EXCEPT !.op = "read", !.trig = "none", !.us = u,
                                       !.delayUs = d, !.calZero = TRUE, !.cal3v3 = TRUE,
                                       !.zero = z, !.span = 1000]
       \/ \E c \in ConversionProbes, b \in Captures :
             scopeArg \in { [c EXCEPT !.op = o, !.samples = b] :
                               o \in {"calibrate_zero", "calibrate_3v3", "probe_calibrate_0",
                                      "probe_calibrate_3v3"} }
       \/ \E b \in Captures :
             scopeArg = [NoCall EXCEPT !.op = "read_stable_value_for_calibration",
                                       !.samples = b]
       \/ \E c \in Calibrations :
             scopeArg = [c EXCEPT !.op = "write_calibration_to_flash"]
       \/ \E x \in {1, 10}, z \in FlashTexts, t \in FlashTexts :
             scopeArg = [NoCall EXCEPT !.op = "read_calibration_from_flash",
                                       !.multiplier = x, !.zeroText = z, !.v3v3Text = t]
       \/ scopeArg = [NoCall EXCEPT !.op = "drop"]
       \/ \E n \in DeviceNames, v \in VendorIds, i \in ProductIds, d \in DeviceNames :
             scopeArg = [NoCall EXCEPT !.op = "validate_device", !.name = n,
                                       !.portType = "UsbPort", !.vid = v, !.pid = i,
                                       !.product = d]
       \/ \E n \in DeviceNames, t \in PortTypes \ {"UsbPort"} :
             scopeArg = [NoCall EXCEPT !.op = "validate_device", !.name = n,
                                       !.portType = t]
    /\ probe = ProbeOf(scopeArg)

\* the call returns res after passing the commands sent to serial.exec
Returns(r) ==
    /\ scopeRes = Pending
    /\ scopeRes' = r.res
    /\ scopeSent' = r.sent
    /\ probe' = IF "probe" \in DOMAIN r THEN r.probe ELSE probe
    /\ UNCHANGED <<scopeArg, termVars, calVars, connVars>>

CallNumber1ToPrescaler ==
    /\ scopeArg.op = "number1_to_prescaler"
    /\ Returns([res |-> Number1ToPrescaler(scopeArg.n), sent |-> <<>>])

CallSetBit ==
    /\ scopeArg.op = "set_bit"
    /\ Returns([res |-> SetBit(scopeArg.bits, scopeArg.bit, scopeArg.state), sent |-> <<>>])

CallDigitalIntoTriggerFields ==
    /\ scopeArg.op = "digital_into_trigger_fields"
    /\ Returns([res |-> [st |-> "Ok", err |-> "",
                         val |-> DigitalIntoTriggerFields(scopeArg.bits, scopeArg.beh)],
                sent |-> <<>>])

\* BitTriggerBuilder::new(), the set_bit calls, is_matching / starts_matching /
\* stops_matching / auto, and into_trigger_fields on the trigger
CallBuilder ==
    /\ scopeArg.op = "builder"
    /\ LET c == BuilderChain(BitTriggerBuilderNew, scopeArg.calls)
       IN  Returns([res |-> IF c.st # "Ok" THEN c
                            ELSE [st |-> "Ok", err |-> "",
                                  val |-> DigitalIntoTriggerFields(c.val, scopeArg.beh)],
                    sent |-> <<>>])

CallAnalogIntoTriggerFields ==
    /\ scopeArg.op = "analog_into_trigger_fields"
    /\ Returns([res |-> AnalogIntoTriggerFields(scopeArg.raw, scopeArg.beh), sent |-> <<>>])

CallRawRead ==
    /\ scopeArg.op = "raw_read"
    /\ \E outcome \in ExecOutcomes :
         Returns(RawRead(scopeArg.us, scopeArg.sub,
                         DigitalIntoTriggerFields(scopeArg.bits, scopeArg.beh),
                         scopeArg.delayUs, scopeArg.delaySub, outcome))

CallRead ==
    /\ scopeArg.op = "read"
    /\ \E outcome \in ExecOutcomes : Returns(Read(scopeArg, outcome))

CallVoltageToRaw ==
    /\ scopeArg.op = "voltage_to_raw"
    /\ Returns([res |-> VoltageToRaw(probe, scopeArg.v), sent |-> <<>>])

CallRawToVoltage ==
    /\ scopeArg.op = "raw_to_voltage"
    /\ Returns([res |-> RawToVoltage(probe, scopeArg.rawq), sent |-> <<>>])

\* probe.set_calibration(z, s) on a fresh probe, then probe.calibration()
CallSetCalibration ==
    /\ scopeArg.op = "set_calibration"
    /\ LET p == SetCalibration(<<scopeArg.zero, 1>>, <<scopeArg.span, 1>>) IN
        Returns([res |-> [st |-> "Ok", err |-> "", val |-> <<p.zero, p.span>>],
                 sent |-> <<>>, probe |-> p])

CallReadStableValue ==
    /\ scopeArg.op = "read_stable_value_for_calibration"
    /\ \E outcome \in ExecOutcomes : Returns(ReadStableValue(scopeArg.samples, outcome))

CallCalibrateZero ==
    /\ scopeArg.op = "calibrate_zero"
    /\ \E outcome \in ExecOutcomes : Returns(CalibrateZero(probe, scopeArg.samples, outcome))

CallProbeCalibrate0 ==
    /\ scopeArg.op = "probe_calibrate_0"
    /\ \E outcome \in ExecOutcomes :
         Returns(ProbeCalibrate0(probe, scopeArg.samples, outcome))

CallCalibrate3v3 ==
    /\ scopeArg.op = "calibrate_3v3"
    /\ \E outcome \in ExecOutcomes : Returns(Calibrate3v3(probe, scopeArg.samples, outcome))

CallProbeCalibrate3v3 ==
    /\ scopeArg.op = "probe_calibrate_3v3"
    /\ \E outcome \in ExecOutcomes :
         Returns(ProbeCalibrate3v3(probe, scopeArg.samples, outcome))

CallWriteCalibrationToFlash ==
    /\ scopeArg.op = "write_calibration_to_flash"
    /\ \E first \in {"ok", "err"}, second \in {"ok", "err"} :
         Returns(WriteCalibrationToFlash(scopeArg, first, second))

CallReadCalibrationFromFlash ==
    /\ scopeArg.op = "read_calibration_from_flash"
    /\ \E oks \in [1..3 -> BOOLEAN] :
         Returns(ReadCalibrationFromFlash(probe, scopeArg.multiplier, oks,
                                          scopeArg.zeroText, scopeArg.v3v3Text))

CallDrop ==
    /\ scopeArg.op = "drop"
    /\ \E first \in DropOutcomes, second \in DropOutcomes : Returns(Drop(first, second))

CallValidateDevice ==
    /\ scopeArg.op = "validate_device"
    /\ Returns([res |-> [st |-> "Ok", err |-> "",
                         val |-> ValidateDevice(scopeArg.name, scopeArg)],
                sent |-> <<>>])

NextScope ==
    \/ CallNumber1ToPrescaler
    \/ CallSetBit
    \/ CallDigitalIntoTriggerFields
    \/ CallBuilder
    \/ CallAnalogIntoTriggerFields
    \/ CallRawRead
    \/ CallRead
    \/ CallVoltageToRaw
    \/ CallRawToVoltage
    \/ CallSetCalibration
    \/ CallReadStableValue
    \/ CallCalibrateZero
    \/ CallProbeCalibrate0
    \/ CallCalibrate3v3
    \/ CallProbeCalibrate3v3
    \/ CallWriteCalibrationToFlash
    \/ CallReadCalibrationFromFlash
    \/ CallDrop
    \/ CallValidateDevice

SpecScope == InitScope /\ [][NextScope]_vars

(***************************************************************************)
(* A calibration session on one FleaScope: calls on either probe in any    *)
(* order, against a device that keeps the values assigned to its variables.*)
(***************************************************************************)
\* calibration calls in a session
MaxCalSteps == 2

\* what the device holds for a cal_zero and for a cal_3v3 variable at the
\* start: nothing, or numbers stored earlier
StoredZeroTexts == {<<>>, Dec(0 - 48), Dec(1000)}
Stored3v3Texts == {<<>>, Dec(1000), Dec(2000), Dec(11001)}

\* the arguments of set_calibration
CalZeros == {<<1000, 1>>, <<2048, 1>>}
CalSpans == {<<0, 1>>, <<2048, 1>>, <<10001, 10>>}

\* the bnc values of the captures of a session
CalCaptures == {<<>>, <<2048>>, <<2040, 2055>>}

\* FleaScope::new(serial, read_calibrations) returned Ok(scope): without
\* read_calibrations both probes are fresh, with it both were loaded
InitCal ==
    /\ AfterNew
    /\ scopeArg = NoCall /\ scopeRes = Pending /\ scopeSent = <<>> /\ probe = FreshProbe
    /\ ConnUnused
    /\ calLeft = MaxCalSteps
    /\ calLast = NoStep
    /\ \E tz \in StoredZeroTexts, tv \in Stored3v3Texts :
          flash = [v \in FlashVars |->
                      IF \E m \in Multipliers : v = CalZeroVar(m) THEN tz ELSE tv]
    /\ \/ probes = [m \in Multipliers |-> FreshProbe]
       \/ /\ \A m \in Multipliers :
                ReadCalibrationFromFlash(FreshProbe, m, [i \in 1..3 |-> TRUE],
                                         flash[CalZeroVar(m)], flash[Cal3v3Var(m)]).res.st = "Ok"
          /\ probes = [m \in Multipliers |->
                          ReadCalibrationFromFlash(FreshProbe, m, [i \in 1..3 |-> TRUE],
                                                   flash[CalZeroVar(m)],
                                                   flash[Cal3v3Var(m)]).probe]

\* the call op on the probe of multiplier m returns r; stored are the commands
\* that took effect on the device.  A panic ends the session.
CalReturns(op, m, r, stored) ==
    /\ calLeft > 0
    /\ calLeft' = IF r.res.st = "Panic" THEN 0 ELSE calLeft - 1
    /\ probes' = IF "probe" \in DOMAIN r THEN GetProbeMut(probes, m, r.probe) ELSE probes
    /\ flash' = DevAssignAll(flash, stored)
    /\ calLast' = [op |-> op, m |-> m, st |-> r.res.st, err |-> r.res.err, sent |-> r.sent,
                   before |-> probes, flashBefore |-> flash,
                   prev |-> [op |-> calLast.op, m |-> calLast.m, st |-> calLast.st,
                             before |-> calLast.before[calLast.m]]]
    /\ UNCHANGED <<termVars, scopeArg, scopeRes, scopeSent, probe, connVars>>

StepSetCalibration ==
    \E m \in Multipliers, z \in CalZeros, n \in CalSpans :
        CalReturns("set_calibration", m,
                   [res |-> [st |-> "Ok", err |-> "", val |-> <<>>], sent |-> <<>>,
                    probe |-> SetCalibration(z, n)], <<>>)

StepCalibrateZero ==
    \E m \in Multipliers, c \in CalCaptures, outcome \in ExecOutcomes :
        CalReturns("calibrate_zero", m, CalibrateZero(probes[m], c, outcome), <<>>)

StepCalibrate3v3 ==
    \E m \in Multipliers, c \in CalCaptures, outcome \in ExecOutcomes :
        CalReturns("calibrate_3v3", m, Calibrate3v3(probes[m], c, outcome), <<>>)

StepProbeCalibrate0 ==
    \E m \in Multipliers, c \in CalCaptures, outcome \in ExecOutcomes :
        CalReturns("probe_calibrate_0", m, ProbeCalibrate0(probes[m], c, outcome), <<>>)

StepProbeCalibrate3v3 ==
    \E m \in Multipliers, c \in CalCaptures, outcome \in ExecOutcomes :
        CalReturns("probe_calibrate_3v3", m, ProbeCalibrate3v3(probes[m], c, outcome), <<>>)

\* an exec that returned an error stored nothing
StepWriteCalibrationToFlash ==
    \E m \in Multipliers, first \in {"ok", "err"}, second \in {"ok", "err"} :
        LET r == ProbeWriteCalibrationToFlash(probes[m], m, first, second)
        IN  CalReturns("write_calibration_to_flash", m, r,
                       IF r.res.st = "Ok" THEN r.sent
                       ELSE IF Len(r.sent) = 2 THEN <<r.sent[1]>> ELSE <<>>)

StepReadCalibrationFromFlash ==
    \E m \in Multipliers, oks \in [1..3 -> BOOLEAN] :
        CalReturns("read_calibration_from_flash", m,
                   ReadCalibrationFromFlash(probes[m], m, oks, flash[CalZeroVar(m)],
                                            flash[Cal3v3Var(m)]), <<>>)

NextCal ==
    \/ StepSetCalibration
    \/ StepCalibrateZero
    \/ StepCalibrate3v3
    \/ StepProbeCalibrate0
    \/ StepProbeCalibrate3v3
    \/ StepWriteCalibrationToFlash
    \/ StepReadCalibrationFromFlash

SpecCal == InitCal /\ [][NextCal]_vars

(***************************************************************************)
(* FleaConnector::connect(name, None, _): get_working_serial's loop and    *)
(* the initialize after it, beside a device that changes its behaviour.    *)
(***************************************************************************)
\* calls of send_reset that are counted (the count stops there)
MaxResets == 2

InitConnect ==
    /\ AfterNew
    /\ scopeArg = NoCall /\ scopeRes = Pending /\ scopeSent = <<>> /\ probe = FreshProbe
    /\ CalUnused
    /\ dev \in Devs
    /\ \E n \in DeviceNames \ {<<>>}, f \in BOOLEAN :
          conn = [NoConn EXCEPT !.pc = "discover", !.name = n, !.foreign = f]

\* connect returns e from inside get_working_serial
ConnFails(e) == [conn EXCEPT !.pc = "returned", !.last = e, !.loop = e, !.res = e]

\* let port_candidate = Self::get_device_port(name)?
ConnDiscover ==
    /\ conn.pc = "discover"
    /\ \E okPorts \in BOOLEAN :
         LET r == GetDevicePort(conn.name, AvailablePorts(dev, conn.foreign), okPorts)
         IN  conn' = IF r = "Ok" THEN [conn EXCEPT !.pc = "open", !.last = r]
                     ELSE ConnFails(r)
    /\ UNCHANGED <<dev, termVars, scopeArg, scopeRes, scopeSent, probe, calVars>>

\* let mut serial = FleaTerminal::new(&port_candidate)?
ConnOpen ==
    /\ conn.pc = "open"
    /\ \E okOpen \in BOOLEAN :
         conn' = IF dev # "gone" /\ okOpen THEN [conn EXCEPT !.pc = "initialize", !.last = "Ok"]
                 ELSE ConnFails("SerialPort")
    /\ UNCHANGED <<dev, termVars, scopeArg, scopeRes, scopeSent, probe, calVars>>

\* match serial.initialize()
ConnInitialize ==
    /\ conn.pc = "initialize"
    /\ InitializeResult(dev) # "loop"
    /\ LET r == InitializeResult(dev)
       IN  conn' = IF r = "Ok"
                   THEN [conn EXCEPT !.pc = "connect_initialize", !.last = r, !.loop = "Ok"]
                   ELSE IF RetryOn(r) THEN [conn EXCEPT !.pc = "reset", !.last = r]
                   ELSE ConnFails(r)
    /\ UNCHANGED <<dev, termVars, scopeArg, scopeRes, scopeSent, probe, calVars>>

\* let _ = serial.send_reset(); thread::sleep(Duration::from_secs(2)); continue
ConnResetAndSleep ==
    /\ conn.pc = "reset"
    /\ conn' = [conn EXCEPT !.pc = "discover",
                            !.resets = IF @ < MaxResets THEN @ + 1 ELSE @]
    /\ UNCHANGED <<dev, termVars, scopeArg, scopeRes, scopeSent, probe, calVars>>

\* connect: terminal.initialize()? on what get_working_serial returned, Ok(terminal)
ConnSecondInitialize ==
    /\ conn.pc = "connect_initialize"
    /\ InitializeResult(dev) # "loop"
    /\ conn' = [conn EXCEPT !.pc = "returned", !.last = InitializeResult(dev),
                            !.res = InitializeResult(dev)]
    /\ UNCHANGED <<dev, termVars, scopeArg, scopeRes, scopeSent, probe, calVars>>

\* the calls of connect
ConnStep ==
    \/ ConnDiscover
    \/ ConnOpen
    \/ ConnInitialize
    \/ ConnResetAndSleep
    \/ ConnSecondInitialize

\* the device changes its behaviour while connect runs
DeviceChanges ==
    /\ conn.pc \notin {"none", "returned"}
    /\ dev' \in Devs \ {dev}
    /\ UNCHANGED <<conn, termVars, scopeArg, scopeRes, scopeSent, probe, calVars>>

NextConnect ==
    \/ ConnDiscover
    \/ ConnOpen
    \/ ConnInitialize
    \/ ConnResetAndSleep
    \/ ConnSecondInitialize
    \/ DeviceChanges

\* connect keeps running: a call that can return does
SpecConnect == InitConnect /\ [][NextConnect]_vars /\ WF_vars(ConnStep)

(***************************************************************************)
(* Properties.                                                             *)
(***************************************************************************)
\* s is a prefix of t
IsPrefix(s, t) == Len(s) <= Len(t) /\ SubSeq(t, 1, Len(s)) = s

\* the last n entries of s (all of s when it is shorter)
LastN(s, n) == IF Len(s) <= n THEN s ELSE SubSeq(s, Len(s) - n + 1, Len(s))

\* API steps that hand a command's response to the caller
Completing == {"exec_sync", "wait", "wait_timeout"}

\* C1: at most one command is outstanding on the connection at any time: no
\* command is written while an earlier one is neither completed nor cancelled.
C1_AtMostOneOutstanding == outstanding <= 1

\* C2: when exec_sync's timeout elapses before the marker, the call fails with
\* the error value Timeout and the connection is left Busy.
C2_SyncTimeoutLeavesBusy ==
    (lastOp = "exec_sync" /\ cause = "Timeout") => (result = "Timeout" /\ handle = "Busy")

\* C3: the response returned for a command issued after a cancel holds no byte
\* the device sent for the cancelled command or for the interrupt (stated for
\* connections on which no read ever signalled a lost link).
C3_NoResidueAfterCancel ==
    (lastOp \in Completing /\ result = "Ok" /\ cancelledNo > 0 /\ ncmd > cancelledNo /\ ~lost)
        => \A i \in 1..Len(payload) : payload[i][2] \notin {cancelledNo, 0 - cancelledNo}

\* C4: cancel writes the interrupt byte, drains up to the marker, clears the
\* buffers and only then yields an Idle handle.
C4_CancelDrainsThenIdle ==
    (lastOp = "cancel" /\ result = "Ok")
        => /\ handle = "Idle"
           /\ LastN(wlog, 2) = <<"ETX", "CLEAR">>

\* C5: once a read on the Busy handle signalled BrokenPipe or UnexpectedEof the
\* connection is terminal: no Idle handle exists for it any more.
C5_LostIsTerminal == lost => handle # "Idle"

\* C6 as stated: a successful exec_sync / completed asynchronous command
\* returns the response buffer with exactly the trailing marker removed.
C6_ExactlyMarkerStripped ==
    (lastOp \in Completing /\ result = "Ok")
        => /\ Len(response) >= 2
           /\ Len(payload) = Len(response) - 2
           /\ \A i \in 1..Len(payload) : payload[i] = response[i]

\* C6 amended: the command is written followed by a newline; success is
\* reported only on a buffer that ends with the marker, and the payload is the
\* buffer without that marker, valid UTF-8, with leading and trailing
\* whitespace removed.
C6_StrippedAndTrimmed ==
    /\ (lastOp \in {"exec_sync", "exec_async"} /\ result \in {"Running", "Ok"})
           => LastN(wlog, 2) = <<lastCmd, "NL">>
    /\ (lastOp \in Completing /\ result = "Ok")
           => /\ Len(response) >= 2
              /\ response[Len(response) - 1][1] = 62
              /\ response[Len(response)][1] = 32
              /\ \E lead \in 0..Len(response) :
                    /\ lead + Len(payload) <= Len(response) - 2
                    /\ \A i \in 1..lead : response[i][1] = 32
                    /\ \A i \in 1..Len(payload) : payload[i] = response[lead + i]
                    /\ \A i \in (lead + Len(payload) + 1)..(Len(response) - 2) :
                          response[i][1] = 32
              /\ \A i \in 1..Len(payload) : payload[i][1] < 128
              /\ payload # <<>> => (payload[1][1] # 32 /\ payload[Len(payload)][1] # 32)

\* a successful exec_sync whose payload is shorter than the buffer without marker
C6_Witness ==
    /\ lastOp = "exec_sync"
    /\ result = "Ok"
    /\ payload # <<>>
    /\ Len(payload) < Len(response) - 2

\* C7: every is_ready makes exactly one read attempt and ends as complete,
\* still pending or link lost.
C7_PollOutcomes ==
    lastOp = "is_ready"
        => /\ lastReads = 1
           /\ result \in {"Ready", "Pending", "ConnectionLost"}

\* C8: exec_async writes the command and returns a Busy handle without reading;
\* while the handle is Busy a step that makes no read leaves the response buffer
\* as it is and takes no byte from the link.
C8_AsyncProgressOnlyInPoll ==
    [][ /\ (handle = "Idle" /\ handle' = "Busy")
            => /\ lastReads' = 0
               /\ response' = <<>>
               /\ rx' = rx
               /\ wlog' = wlog \o <<lastCmd', "NL">>
        /\ (handle = "Busy" /\ lastReads' = 0)
            => /\ response' = response
               /\ IsPrefix(rx, rx') ]_vars

\* a Busy handle that polled part of the response, then cancelled, with bytes waiting
C8_Witness ==
    /\ handle = "Busy"
    /\ lastOp = "cancel"
    /\ response # <<>>
    /\ rx # <<>>

\* C9: initialize ends with an Idle handle, or with an error and the same
\* pre-handshake handle, whichever step failed; until then the caller holds
\* no other handle.
C9_InitializeGivesHandleBack ==
    /\ (lastOp = "initialize" /\ pc = "none")
           => \/ handle = "Idle" /\ result = "Ok"
              \/ handle = "Pre" /\ result \in {"Io", "Timeout", "Utf8", "SerialPort"}
    /\ pc \in {"init", "init_flush"} => handle = "Pre"

\* initialize failed in its final buffer clear and the Pre handle is back
C9_Witness ==
    /\ lastOp = "initialize"
    /\ pc = "none"
    /\ handle = "Pre"
    /\ result = "SerialPort"
    /\ LastN(wlog, 3) = <<"ETX", PromptOn, "NL">>

\* C10: the handshake clears, interrupts, writes "prompt on", waits for the
\* marker and clears; an Idle handle exists only after the device answered
\* "prompt on" with the marker.
C10_IdleOnlyAfterPromptOnAnswered ==
    (lastOp = "initialize" /\ handle = "Idle")
        => /\ LastN(wlog, 4) = <<"ETX", PromptOn, "NL", "CLEAR">>
           /\ Len(response) >= 2
           /\ response[Len(response) - 1] = <<62, ncmd>>
           /\ response[Len(response)] = <<32, ncmd>>

\* C11: with a timeout supplied, exec (in exec_sync and in the handshake) and
\* wait_timeout look at the timeout on every read iteration: no iteration at
\* which the timeout had elapsed lets the loop go on.
C11_TimeoutCheckedEveryIteration ==
    ((pc \in {"init", "exec_sync"} /\ tmo) \/ pc = "wait_timeout") => ~overdue

\* C12: cancelling is bounded: the wait() that brings a cancelled Busy handle
\* back to Idle does not loop on beyond a time limit.
C12_CancelledWaitIsBounded ==
    (pc = "wait" /\ cancelledNo > 0 /\ cancelledNo = ncmd) => ~overdue

\* the call of the FleaScope / trigger layer has returned
Returned == scopeRes.st # "pending"

\* the errors by which a capture or calibration request is refused as invalid
ValidationErrors ==
    {"TimeFrameTooLarge", "TimeFrameTooSmall", "DelayTooLarge", "InvalidTicksPerSample",
     "InvalidPrescalerLow", "InvalidPrescalerHigh", "DelaySamplesTooLarge",
     "CalibrationNotSet", "ZeroCalibrationRequired"}

\* C13: for every time frame d with 111us < d <= 3.49s and no delay, raw_read's
\* planning succeeds (the scope command is issued) with ticks >= 1 and a
\* prescaler in [1, 1048560] (hence an effective sample rate > 0).
C13_PlanningSucceedsInRange ==
    (/\ scopeArg.op = "raw_read" /\ Returned
     /\ scopeArg.delayUs = 0 /\ scopeArg.delaySub = 0
     /\ scopeArg.us > 111 \/ (scopeArg.us = 111 /\ scopeArg.sub > 0)
     /\ scopeArg.us < 3490000 \/ (scopeArg.us = 3490000 /\ scopeArg.sub = 0))
        => /\ scopeSent # <<>>
           /\ scopeRes.st = "Ok" => /\ scopeRes.val.number1 >= 1
                                    /\ scopeRes.val.prescaler \in 1..1048560

\* C14: a time frame d <= 111us fails with TimeFrameTooSmall, one > 3.49s with
\* TimeFrameTooLarge, and no command is issued.
C14_OutOfRangeRejected ==
    (scopeArg.op = "raw_read" /\ Returned)
        => /\ (scopeArg.us < 111 \/ (scopeArg.us = 111 /\ scopeArg.sub = 0))
                => (scopeRes.err = "TimeFrameTooSmall" /\ scopeSent = <<>>)
           /\ (scopeArg.us > 3490000 \/ (scopeArg.us = 3490000 /\ scopeArg.sub > 0))
                => (scopeRes.err = "TimeFrameTooLarge" /\ scopeSent = <<>>)

\* C15: a call that ends in a validation error has passed no command to the
\* link.
C15_ValidationBeforeAnyWrite ==
    (Returned /\ scopeRes.st = "Err" /\ scopeRes.err \in ValidationErrors)
        => scopeSent = <<>>

\* C16: number1_to_prescaler uses ps = 16 when n > 1000 and ps = 1 otherwise,
\* t = truncate(120 * n * 5 / ps / 18 + 0.5); it fails with InvalidPrescalerLow
\* when t <= 0, with InvalidPrescalerHigh when t > 65535, and otherwise returns
\* ps * t.  With x = (1200 n + 18 ps) / (36 ps): t <= 0 iff x < 1, t > 65535 iff
\* x >= 65536, and otherwise t is the integer with t <= x < t + 1.
C16_PrescalerDerivation ==
    (scopeArg.op = "number1_to_prescaler" /\ Returned)
        => LET n == scopeArg.n
               ps == IF n > 1000 THEN 16 ELSE 1
               x36 == 1200 * n + 18 * ps
           IN  /\ scopeSent = <<>>
               /\ x36 < 36 * ps
                    <=> (scopeRes.st = "Err" /\ scopeRes.err = "InvalidPrescalerLow")
               /\ x36 >= 36 * ps * 65536
                    <=> (scopeRes.st = "Err" /\ scopeRes.err = "InvalidPrescalerHigh")
               /\ (x36 >= 36 * ps /\ x36 < 36 * ps * 65536)
                    => /\ scopeRes.st = "Ok"
                       /\ scopeRes.val % ps = 0
                       /\ 36 * scopeRes.val <= x36
                       /\ x36 < 36 * (scopeRes.val + ps)
               /\ n = 0 => scopeRes.err = "InvalidPrescalerLow"

\* number1_to_prescaler(1001) has returned 16 * 2085, t rounded down from
\* 2085.92, and number1_to_prescaler(2) would be 67, rounded up from 66.67
C16_Witness ==
    /\ scopeArg.op = "number1_to_prescaler"
    /\ scopeArg.n = 1001
    /\ scopeRes = [st |-> "Ok", err |-> "", val |-> 33360]

\* C17: for a valid time frame a delay above 1s is rejected; otherwise
\* delaySamples = truncate(delay in us * effective sample rate in MHz + 0.5),
\* a value above 1,000,000 is rejected with DelayTooLarge, and the last field
\* of the scope command is exactly that delaySamples.
C17_DelaySamplesRounded ==
    (/\ scopeArg.op = "raw_read" /\ Returned
     /\ scopeArg.us >= 112
     /\ scopeArg.us < 3490000 \/ (scopeArg.us = 3490000 /\ scopeArg.sub = 0))
        => IF scopeArg.delayUs > 1000000
              \/ (scopeArg.delayUs = 1000000 /\ scopeArg.delaySub > 0)
           THEN scopeRes.st = "Err" /\ scopeSent = <<>>
           ELSE LET prescaler == Number1ToPrescaler((18 * scopeArg.us) \div 2000).val
                    \* delay_us * (600 / prescaler) + 1/2, truncated
                    delaySamples == (2 * scopeArg.delayUs * 600 + prescaler) \div (2 * prescaler)
                    field == <<" ">> \o Dec(delaySamples)
                IN  IF delaySamples > 1000000
                    THEN scopeRes.err = "DelayTooLarge" /\ scopeSent = <<>>
                    ELSE /\ Len(scopeSent) = 1
                         /\ LastN(scopeSent[1], Len(field)) = field

\* the value of a hexadecimal or decimal digit
DigitValue(c) == CHOOSE v \in 0..15 : Digits[v + 1] = c

\* the number a string of digits denotes in the given base (-1 when s is empty
\* or holds a character that is no digit of the base)
RECURSIVE NumberOf(_, _)
NumberOf(s, base) ==
    IF s = <<>> \/ \E i \in 1..Len(s) : \A v \in 1..base : Digits[v] # s[i] THEN 0 - 1
    ELSE IF Len(s) = 1 THEN DigitValue(s[1])
    ELSE base * NumberOf(SubSeq(s, 1, Len(s) - 1), base) + DigitValue(s[Len(s)])

\* the prefix the claims give for a behaviour of either kind of trigger
ClaimedPrefix(behavior) ==
    IF behavior = "Auto" THEN <<"~">>
    ELSE IF behavior \in {"Level", "While"} THEN <<>>
    ELSE IF behavior \in {"Rising", "Start"} THEN <<"+">>
    ELSE <<"-">>

\* C18: for every assignment of the 9 channels and every behaviour the digital
\* trigger encodes to "<prefix>0x<activeMask> 0x<relevantMask>", hex with at
\* least two digits each; bit i of activeMask is set iff channel i is High,
\* bit i of relevantMask iff channel i is not DontCare.
C18_DigitalTriggerEncoding ==
    (scopeArg.op = "digital_into_trigger_fields" /\ Returned)
        => LET s == scopeRes.val
               pre == ClaimedPrefix(scopeArg.beh)
               b == scopeArg.bits
           IN  /\ scopeRes.st = "Ok"
               /\ IsPrefix(pre \o <<"0", "x">>, s)
               /\ \E k \in (Len(pre) + 5)..(Len(s) - 4) :
                     LET active == SubSeq(s, Len(pre) + 3, k - 1)
                         relevant == SubSeq(s, k + 3, Len(s))
                     IN  /\ SubSeq(s, k, k + 2) = <<" ", "0", "x">>
                         /\ Len(active) >= 2
                         /\ Len(relevant) >= 2
                         /\ NumberOf(active, 16) \in 0..511
                         /\ NumberOf(relevant, 16) \in 0..511
                         /\ \A i \in 0..8 :
                               /\ (NumberOf(active, 16) \div (2 ^ i)) % 2 = 1
                                     <=> b[i] = "High"
                               /\ (NumberOf(relevant, 16) \div (2 ^ i)) % 2 = 1
                                     <=> b[i] # "DontCare"

\* bit0 = High, bit1 = Low, While has been encoded as "0x01 0x03"
C18_Witness ==
    /\ scopeArg.op = "digital_into_trigger_fields"
    /\ scopeArg.bits = TestBits
    /\ scopeArg.beh = "While"
    /\ scopeRes.val = <<"0", "x", "0", "1", " ", "0", "x", "0", "3">>

C20_OutOfRangeReported ==
    /\ (/\ scopeArg.op = "analog_into_trigger_fields" /\ Returned
        /\ (scopeArg.raw >= 4094 \/ scopeArg.raw <= 0 - 4098))
           => (scopeRes.st = "Err" /\ scopeRes.val = <<>> /\ scopeSent = <<>>)
    /\ (/\ scopeArg.op = "read" /\ Returned
        /\ scopeArg.trig = "analog" /\ Calibrated(scopeArg)
        /\ (scopeArg.raw >= 4094 \/ scopeArg.raw <= 0 - 4098))
           => /\ scopeRes.st = "Err"
              /\ scopeRes.err = "VoltageOutOfRange"
              /\ scopeSent = <<>>

\* C21: set_bit with an index in 0..8 always succeeds and sets that channel
\* only; with an index >= 9 it aborts with the message "Bit index N out of
\* range ..." and yields no builder, hence no trigger.
C21_SetBitRange ==
    (scopeArg.op = "set_bit" /\ Returned)
        => IF scopeArg.bit \in 0..8
           THEN /\ scopeRes.st = "Ok"
                /\ DOMAIN scopeRes.val = 0..8
                /\ \A i \in 0..8 :
                      scopeRes.val[i] = IF i = scopeArg.bit THEN scopeArg.state
                                        ELSE scopeArg.bits[i]
           ELSE /\ scopeRes.st = "Panic"
                /\ scopeRes.val = <<>>
                /\ IsPrefix(<<"B", "i", "t", " ", "i", "n", "d", "e", "x", " ">>
                               \o Dec(scopeArg.bit)
                               \o <<" ", "o", "u", "t", " ", "o", "f", " ", "r", "a", "n",
                                    "g", "e">>,
                            scopeRes.err)

\* set_bit(9, High), the call of the unit test, has panicked
C21_Witness ==
    /\ scopeArg.op = "set_bit"
    /\ scopeArg.bit = 9
    /\ scopeArg.state = "High"
    /\ scopeRes.st = "Panic"

\* the words of a string, split at single spaces
RECURSIVE Words(_)
Words(s) ==
    IF \A i \in 1..Len(s) : s[i] # " " THEN <<s>>
    ELSE LET k == CHOOSE i \in 1..Len(s) : s[i] = " " /\ \A j \in 1..(i - 1) : s[j] # " "
         IN  <<SubSeq(s, 1, k - 1)>> \o Words(SubSeq(s, k + 1, Len(s)))

\* s is a decimal rendering of the integer n
IsDecimal(s, n) ==
    IF n < 0 THEN s # <<>> /\ s[1] = "-" /\ NumberOf(Tail(s), 10) = 0 - n
    ELSE NumberOf(s, 10) = n

C23_CalibrationNotSetEverywhere ==
    /\ (scopeArg.op \in {"voltage_to_raw", "raw_to_voltage"} /\ Returned)
          => IF Calibrated(scopeArg) THEN scopeRes.st = "Ok"
             ELSE scopeRes.st = "Err" /\ scopeRes.err = "CalibrationNotSet"
    /\ (scopeArg.op = "read" /\ Returned /\ ~Calibrated(scopeArg))
          => IF scopeArg.trig = "digital" THEN scopeRes.st # "Ok"
             ELSE scopeRes.st = "Err" /\ scopeRes.err = "CalibrationNotSet"
    /\ scopeArg.op = "set_calibration"
          => IF Returned
             THEN probe = [calZero |-> TRUE, zero |-> <<scopeArg.zero, 1>>,
                           cal3v3 |-> TRUE, span |-> <<scopeArg.span, 1>>]
             ELSE ~probe.calZero /\ ~probe.cal3v3

\* C24: with zero and span set and span non-zero, raw_to_voltage(raw) =
\* (raw - zero) / span * 3.3 and voltage_to_raw(v) = v / 3.3 * span + zero,
\* and raw_to_voltage gives v back on every raw value voltage_to_raw(v).
C24_CalibrationRoundTrip ==
    LET zero == scopeArg.zero
        span == scopeArg.span
        n == scopeRes.val[1]
        d == scopeRes.val[2]
    IN  /\ (/\ scopeArg.op = "raw_to_voltage" /\ Returned
            /\ Calibrated(scopeArg) /\ span # 0)
              => /\ scopeRes.st = "Ok"
                 /\ d > 0
                 \* n / d = 33 (raw - zero) / (10 span)
                 /\ n * 10 * span * scopeArg.rawq[2]
                       = d * 33 * (scopeArg.rawq[1] - zero * scopeArg.rawq[2])
                 /\ \A v \in Volts :
                       VoltageToRaw(ProbeOf(scopeArg), v).val = scopeArg.rawq
                           => scopeRes.val = v
        /\ (scopeArg.op = "voltage_to_raw" /\ Returned /\ Calibrated(scopeArg))
              => /\ scopeRes.st = "Ok"
                 /\ d > 0
                 \* n / d = 10 v span / 33 + zero
                 /\ n * 33 * scopeArg.v[2]
                       = d * (10 * scopeArg.v[1] * span + zero * 33 * scopeArg.v[2])

\* on the probe with zero = 2048.0 and span = 1000.0 the raw value 3048 =
\* voltage_to_raw(3.3) has been converted back to 3.3
C24_Witness ==
    /\ scopeArg.op = "raw_to_voltage"
    /\ scopeArg.zero = 2048
    /\ scopeArg.span = 1000
    /\ scopeArg.rawq = <<3048, 1>>
    /\ VoltageToRaw(ProbeOf(scopeArg), V3v3).val = scopeArg.rawq
    /\ scopeRes = [st |-> "Ok", err |-> "", val |-> <<33, 10>>]

\* the calls that make a stable-value capture
StableCaptureCalls ==
    {"calibrate_zero", "calibrate_3v3", "probe_calibrate_0", "probe_calibrate_3v3",
     "read_stable_value_for_calibration"}

\* the call has made its capture and the device has answered it with samples
Captured ==
    /\ Returned
    /\ scopeSent # <<>>
    /\ scopeRes.st # "Panic"
    /\ ~(scopeRes.st = "Err" /\ scopeRes.err = "SerialTerminal")
    /\ scopeArg.samples # <<>>

\* C25: a stable-value capture whose samples have max - min > 14 fails with
\* SignalNotStable carrying the minimum and the maximum of the samples; when
\* max - min <= 14 the calibration value (the new zero, the value read for
\* full scale) is the arithmetic mean of the samples.
C25_StableValue ==
    (scopeArg.op \in StableCaptureCalls /\ Captured)
        => LET b == scopeArg.samples
               idx == 1..Len(b)
               mean == IF scopeArg.op \in {"calibrate_zero", "probe_calibrate_0"}
                       THEN probe.zero
                       ELSE IF scopeArg.op \in {"calibrate_3v3", "probe_calibrate_3v3"}
                       THEN FAdd(probe.span, probe.zero)
                       ELSE scopeRes.val
           IN  IF \E i \in idx, j \in idx : b[i] - b[j] > 14
               THEN /\ scopeRes.st = "Err"
                    /\ scopeRes.err = "SignalNotStable"
                    /\ \E i \in idx : b[i] = scopeRes.val.min
                    /\ \A i \in idx : b[i] >= scopeRes.val.min
                    /\ \E i \in idx : b[i] = scopeRes.val.max
                    /\ \A i \in idx : b[i] <= scopeRes.val.max
                    /\ probe = ProbeOf(scopeArg)
               ELSE /\ scopeRes.st = "Ok"
                    /\ mean[2] > 0
                    /\ mean[1] * Len(b) = mean[2] * SeqSum(b)

\* a zero calibration has failed on the samples 2040, 2055 with
\* SignalNotStable { min: 2040, max: 2055 }, and one on 2040, 2054 would pass
C25_Witness ==
    /\ scopeArg.op = "calibrate_zero"
    /\ scopeArg.samples = <<2040, 2055>>
    /\ scopeRes = [st |-> "Err", err |-> "SignalNotStable",
                   val |-> [min |-> 2040, max |-> 2055]]

\* C26: re-zeroing a probe that has a full-scale calibration preserves the
\* raw full-scale point: after a successful zero calibration new zero + new
\* span = old zero + old span; when no span existed before, span stays absent.
C26_ReZeroKeepsFullScalePoint ==
    (/\ scopeArg.op \in {"calibrate_zero", "probe_calibrate_0"}
     /\ Captured /\ scopeRes.st = "Ok")
        => /\ probe.calZero
           /\ probe.cal3v3 = scopeArg.cal3v3
           /\ scopeArg.cal3v3
                => FAdd(probe.zero, probe.span) = <<scopeArg.zero + scopeArg.span, 1>>

\* a probe with zero 2048 and span 1000 has been re-zeroed on the samples
\* 2040, 2054: zero 2047, span 1001
C26_Witness ==
    /\ scopeArg.op = "calibrate_zero"
    /\ scopeArg.cal3v3 /\ scopeArg.zero = 2048 /\ scopeArg.span = 1000
    /\ scopeArg.samples = <<2040, 2054>>
    /\ scopeRes.st = "Ok"
    /\ probe = [calZero |-> TRUE, zero |-> <<2047, 1>>, cal3v3 |-> TRUE,
                span |-> <<1001, 1>>]

\* C27: full-scale calibration on a probe without zero fails with
\* ZeroCalibrationRequired and issues no capture command; with zero set and a
\* stable capture it sets span = mean(samples) - zero and leaves zero as it is.
C27_FullScaleNeedsZero ==
    (scopeArg.op \in {"calibrate_3v3", "probe_calibrate_3v3"} /\ Returned)
        => IF ~scopeArg.calZero
           THEN /\ scopeRes.st = "Err"
                /\ scopeRes.err = "ZeroCalibrationRequired"
                /\ scopeSent = <<>>
                /\ probe = ProbeOf(scopeArg)
           ELSE LET b == scopeArg.samples
                    idx == 1..Len(b)
                IN  (Captured /\ \A i \in idx, j \in idx : b[i] - b[j] <= 14)
                       => /\ scopeRes.st = "Ok"
                          /\ probe.calZero /\ probe.cal3v3
                          /\ probe.zero = <<scopeArg.zero, 1>>
                          \* span = sum / len - zero
                          /\ probe.span[2] > 0
                          /\ probe.span[1] * Len(b)
                                = probe.span[2] * (SeqSum(b) - scopeArg.zero * Len(b))

\* a probe with zero 2048 has been calibrated at full scale on the samples
\* 2054, 2055: span 6.5
C27_Witness ==
    /\ scopeArg.op = "calibrate_3v3"
    /\ scopeArg.calZero /\ scopeArg.zero = 2048
    /\ scopeArg.samples = <<2054, 2055>>
    /\ scopeRes = [st |-> "Ok", err |-> "", val |-> <<13, 2>>]
    /\ probe.span = <<13, 2>>
    /\ probe.zero = <<2048, 1>>

\* C28: loading the calibration fails with CalibrationValuesEqual whenever the
\* values printed for cal_zero_x<mult> and for cal_3v3_x<mult> are numerically
\* equal, for both multipliers.
C28_EqualStoredValuesRejected ==
    (/\ scopeArg.op = "read_calibration_from_flash" /\ Returned
     /\ Len(scopeSent) = 3
     /\ ~(scopeRes.st = "Err" /\ scopeRes.err = "SerialTerminal")
     /\ \E n \in FlashValues :
           IsDecimal(scopeArg.zeroText, n) /\ IsDecimal(scopeArg.v3v3Text, n))
        => (scopeRes.st = "Err" /\ scopeRes.err = "CalibrationValuesEqual")

\* C29: no device response, however malformed (non-numeric calibration value,
\* non-CSV or empty scope payload), aborts the process: the call returns Ok
\* or a typed error value.
C29_NoAbortOnResponse ==
    (/\ Returned
     /\ \/ scopeArg.op \in {"raw_read", "read_calibration_from_flash"}
        \/ scopeArg.op \in StableCaptureCalls
        \/ scopeArg.op = "read" /\ Calibrated(scopeArg))
        => scopeRes.st \in {"Ok", "Err"}

\* C30: the teardown runs "echo on", then "prompt on", and finishes (without
\* aborting, without blocking forever) also when the device is disconnected
\* or no longer answers.
C30_TeardownFinishes ==
    (scopeArg.op = "drop" /\ scopeRes # Pending)
        => /\ scopeRes.st = "Ok"
           /\ scopeSent = <<EchoOnCommand, PromptOnCommand>>

\* C31: discovery accepts a port iff it is a USB port whose (vendor, product)
\* pair is one of (0x0403, 0xa660), (0x1b4f, 0xa660), (0x1b4f, 0xe66e),
\* (0x04d8, 0xe66e) and, when a name filter is given, whose advertised product
\* name is present and equal to it.
C31_DiscoveryAccepts ==
    (scopeArg.op = "validate_device" /\ Returned)
        => (scopeRes.val = TRUE
              <=> /\ scopeArg.portType = "UsbPort"
                  /\ \/ scopeArg.vid = 1027 /\ scopeArg.pid = 42592
                     \/ scopeArg.vid = 6991 /\ scopeArg.pid \in {42592, 58990}
                     \/ scopeArg.vid = 1240 /\ scopeArg.pid = 58990
                  /\ scopeArg.name = <<>>
                       \/ (scopeArg.product # <<>> /\ scopeArg.product = scopeArg.name))

\* the unit test's port, accepted under the filter "FleaScope"
C31_Witness ==
    /\ scopeArg.op = "validate_device" /\ Returned
    /\ scopeArg.vid = 1027 /\ scopeArg.pid = 42592
    /\ scopeArg.name = <<"FleaScope">>
    /\ scopeRes.val = TRUE

\* a load directly after a successful persist of the same probe, all of whose
\* commands the device answered
LoadedAfterPersist ==
    /\ calLast.op = "read_calibration_from_flash"
    /\ Len(calLast.sent) = 3
    /\ ~(calLast.st = "Err" /\ calLast.err = "SerialTerminal")
    /\ calLast.prev.op = "write_calibration_to_flash"
    /\ calLast.prev.st = "Ok"
    /\ calLast.prev.m = calLast.m

\* C32: persisting a probe's calibration and loading it again restores it:
\* zero and span are the values before the write, for every integer zero and
\* every span that is a multiple of 1/multiplier, for both multipliers.
C32_PersistLoadRestores ==
    (/\ LoadedAfterPersist
     /\ calLast.prev.before.zero[2] = 1
     /\ calLast.prev.before.span[2] # 0
     /\ calLast.m % calLast.prev.before.span[2] = 0)
        => /\ probes[calLast.m].zero = calLast.prev.before.zero
           /\ probes[calLast.m].span = calLast.prev.before.span

\* C33: a Timeout from wait_timeout loses nothing.  No step of wait_timeout,
\* wait or is_ready on a Busy handle drops or reorders a byte: the buffer only
\* grows, by bytes taken from the link in order; a Timeout leaves the handle
\* Busy; and the payload at completion is made of the whole buffer, whatever
\* timeouts came before.
C33_TimeoutLosesNothing ==
    [][(handle = "Busy" /\ lastOp' \in {"wait", "wait_timeout", "is_ready"})
          => /\ response' \o rx' \o devQ' = response \o rx \o devQ
             /\ IsPrefix(response, response')
             /\ (result' = "Timeout" => handle' = "Busy" /\ done' = done)
             /\ (handle' = "Idle" /\ result' = "Ok"
                   => payload' = Trim(WithoutPrompt(response')))]_vars

\* wait_timeout returned Timeout on a handle that had already received bytes
C33_Witness ==
    /\ lastOp = "wait_timeout" /\ result = "Timeout"
    /\ handle = "Busy"
    /\ response # <<>>
    /\ devQ # <<>>

\* C34: completion does not depend on how the stream is split into reads.  On
\* a link that carries nothing but the command's own response (no cancel, no
\* bytes of an earlier command), a command is reported complete only when the
\* device's final marker has been received: nothing of its response is still
\* to come, also for a body that contains the marker sequence.
C34_CompleteOnlyAtFinalMarker ==
    (/\ lastOp \in Completing /\ result = "Ok" /\ handle = "Idle"
     /\ cancelledNo = 0
     /\ \A i \in 1..Len(response) : response[i][2] = ncmd)
        => \A i \in 1..Len(rx \o devQ) : (rx \o devQ)[i][2] # ncmd

\* C35: after any successful load of calibration from the device the probe
\* is non-degenerate: its span is not zero, so raw_to_voltage does not divide
\* by zero on it.
C35_LoadedSpanNotZero ==
    (calLast.op = "read_calibration_from_flash" /\ calLast.st = "Ok")
        => /\ probes[calLast.m].span[1] # 0
           /\ RawToVoltage(probes[calLast.m], <<3048, 1>>).val # NotFinite

\* the probes other than the one the last calibration call was made on
OtherProbes == Multipliers \ {calLast.m}

\* C37: the two probes are independent: a zero calibration, full-scale
\* calibration, set_calibration, load or persist on one probe leaves zero and
\* span of the other unchanged, and persisting probe x<m> only writes the
\* variables cal_zero_x<m> and cal_3v3_x<m>.
C37_ProbesIndependent ==
    calLast.op # "none"
        => /\ \A m \in OtherProbes : probes[m] = calLast.before[m]
           /\ \A m \in OtherProbes :
                 /\ flash[CalZeroVar(m)] = calLast.flashBefore[CalZeroVar(m)]
                 /\ flash[Cal3v3Var(m)] = calLast.flashBefore[Cal3v3Var(m)]
           /\ calLast.op = "write_calibration_to_flash"
                 => \A i \in 1..Len(calLast.sent) :
                       \/ IsPrefix(CalZeroVar(calLast.m) \o <<" ", "=", " ">>, calLast.sent[i])
                       \/ IsPrefix(Cal3v3Var(calLast.m) \o <<" ", "=", " ">>, calLast.sent[i])

\* the x10 probe was re-zeroed and persisted while the x1 probe holds a calibration
C37_Witness ==
    /\ calLast.op = "write_calibration_to_flash" /\ calLast.m = 10 /\ calLast.st = "Ok"
    /\ calLast.prev.op = "calibrate_zero" /\ calLast.prev.m = 10 /\ calLast.prev.st = "Ok"
    /\ probes[10] # calLast.prev.before
    /\ flash # calLast.flashBefore
    /\ probes[1].calZero /\ probes[1].cal3v3

\* C38: a calibration step or load that fails (SignalNotStable, empty capture,
\* ZeroCalibrationRequired, CalibrationValuesEqual, an unparsable stored value,
\* a transport error) leaves the probe's zero and span as they were before.
C38_FailedStepKeepsProbe ==
    (calLast.op # "none" /\ calLast.st = "Err")
        => probes[calLast.m] = calLast.before[calLast.m]

\* C36: get_working_serial returns a terminal only after a handshake on it
\* succeeded; on a handshake Timeout it sends the reset, waits and retries
\* discovery and handshake; on any other error (no matching device included)
\* it stops and returns that error; and it terminates provided the device
\* eventually answers the handshake or disappears from discovery.
C36_RetryLoop ==
    /\ [][(conn.pc = "initialize" /\ conn' # conn)
            => /\ (conn'.loop = "Ok" <=> conn'.last = "Ok")
               /\ (conn'.last = "Timeout"
                     => conn'.pc = "reset" /\ conn'.loop = "running")
               /\ (conn'.last \notin {"Ok", "Timeout"}
                     => conn'.pc = "returned" /\ conn'.loop = conn'.last)]_vars
    /\ [][(conn.pc = "reset" /\ conn' # conn)
            => /\ conn'.pc = "discover" /\ conn'.loop = "running"
               /\ (conn.resets < MaxResets => conn'.resets = conn.resets + 1)]_vars
    /\ [][(conn.pc \in {"discover", "open"} /\ conn' # conn)
            => IF conn'.last = "Ok" THEN conn'.loop = "running" /\ conn'.pc # "returned"
               ELSE conn'.pc = "returned" /\ conn'.loop = conn'.last]_vars
    /\ [][(conn.pc = "discover" /\ conn' # conn /\ dev = "gone" /\ conn'.last # "SerialPort")
            => conn'.loop = "DeviceNotFound"]_vars
    /\ [](conn.loop = "Ok" => conn.pc \in {"connect_initialize", "returned"})
    /\ (<>[](dev \in {"answering", "gone"})) => <>(conn.loop # "running")

\* the loop returned a terminal after it had sent a reset and retried
C36_Witness ==
    /\ conn.loop = "Ok"
    /\ conn.resets >= 1
    /\ conn.pc = "connect_initialize"

\* the two masks <<activeMask, relevantMask>> of an encoded digital trigger
\* "<prefix>0x<activeMask> 0x<relevantMask>"
MasksOf(s, pre) ==
    LET k == CHOOSE k \in 1..Len(s) : s[k] = " "
    IN  <<NumberOf(SubSeq(s, Len(pre) + 3, k - 1), 16), NumberOf(SubSeq(s, k + 3, Len(s)), 16)>>

\* bit i of the mask
BitOf(mask, i) == (mask \div (2 ^ i)) % 2

\* the calls of the chain on channel i
CallsOn(calls, i) == {k \in 1..Len(calls) : calls[k].bit = i}

\* C39: for every sequence of builder calls the encoded masks satisfy
\* activeMask AND relevantMask = activeMask and relevantMask < 2^9; a fresh
\* builder has every channel DontCare (both masks 0); set_bit(i, s) changes only
\* channel i, and the last state set for a channel is the one encoded.
C39_BuilderMasks ==
    (scopeArg.op = "builder" /\ Returned /\ \A k \in 1..Len(scopeArg.calls) : scopeArg.calls[k].bit <= 8)
        => /\ scopeRes.st = "Ok"
           /\ LET calls == scopeArg.calls
                  m == MasksOf(scopeRes.val, ClaimedPrefix(scopeArg.beh))
                  activeMask == m[1]
                  relevantMask == m[2]
              IN  /\ activeMask >= 0
                  /\ relevantMask >= 0 /\ relevantMask < 2 ^ 9
                  /\ \A i \in 0..8 : BitOf(activeMask, i) = 1 => BitOf(relevantMask, i) = 1
                  /\ activeMask < 2 ^ 9
                  /\ calls = <<>> => activeMask = 0 /\ relevantMask = 0
                  /\ \A i \in 0..8 :
                        LET state == IF CallsOn(calls, i) = {} THEN "DontCare"
                                     ELSE calls[CHOOSE k \in CallsOn(calls, i) :
                                                   \A j \in CallsOn(calls, i) : j <= k].state
                        IN  /\ BitOf(activeMask, i) = 1 <=> state = "High"
                            /\ BitOf(relevantMask, i) = 1 <=> state # "DontCare"

\* set_bit(3, High) then set_bit(3, Low) has been encoded: channel 3 is
\* relevant and not active
C39_Witness ==
    /\ scopeArg.op = "builder"
    /\ scopeArg.calls = <<[bit |-> 3, state |-> "High"], [bit |-> 3, state |-> "Low"]>>
    /\ scopeArg.beh = "Start"
    /\ scopeRes.st = "Ok"
    /\ scopeRes.val = <<"+", "0", "x", "0", "0", " ", "0", "x", "0", "8">>
====
